---------------------------- MODULE Spec2Model ----------------------------
(***************************************************************************)
(* A model of the vine service registry (registry/src): the etcd-backed    *)
(* client EtcdRegistry (etcd/lib.rs), its RegistrationTracker `data`, the   *)
(* read-side aggregation of get_service / list_service, the crate-level    *)
(* functions that go through the process-wide DEFAULT_REGISTRY (lib.rs),    *)
(* and the Watcher (etcd/watch.rs).                                         *)
(*                                                                         *)
(* Strings whose characters matter (service names, node ids, store keys)   *)
(* are sequences of one-character strings, so that concatenation, prefix   *)
(* scans and the replacement of "/" by "-" are computed, not assumed.       *)
(* An awaited store request is one atomic step, taken at the moment the    *)
(* store linearizes it; a task whose pc names a request is suspended on    *)
(* that request.                                                           *)
(***************************************************************************)
EXTENDS Integers, Sequences, FiniteSets, TLC

VARIABLES
    store,      \* the coordination store: key -> [value, lease]
    active,     \* the lease ids the store holds as granted and not expired
    nextLease,  \* the id the store hands out at the next lease-grant
    data,       \* EtcdRegistry.data: [registers, leases], the tracker maps
    lock,       \* the holder of the tokio Mutex around `data` (NoTask = free)
    glock,      \* the holder of the Mutex inside DEFAULT_REGISTRY
    pc,         \* per task: where its current call stands
    call,       \* per task: the call it is making (operation, argument, route)
    loc,        \* per task: the locals of the register_node / deregister body
    res,        \* per task: what its last finished call returned
    ncalls,     \* calls started so far
    nfail,      \* store requests that have failed so far
    cfg,        \* the tasks that run and the inputs they draw from
    prev,       \* per task: the call it made before the current one, and its outcome
    wlock,      \* the holder of the Mutex around the Watcher's (watcher, stream)
    stream,     \* the watch stream: responses delivered and not yet read
    wstate,     \* the subscription: "open", "cancelling", "canceled", "closed"
    wdelivered, \* the responses the store has put on the stream, in order
    wevents,    \* the events next() calls have returned, in order
    cell,       \* DEFAULT_REGISTRY, the OnceCell: "empty" or the registry it holds
    elocks      \* etcd/etcd.rs: the holders of its `leases` and `registers` mutexes

vars == <<store, active, nextLease, data, lock, glock, pc, call, loc, res,
          ncalls, nfail, cfg, prev, wlock, stream, wstate, wdelivered, wevents,
          cell, elocks>>

regVars   == <<store, active, nextLease, data, lock, glock, ncalls, nfail>>
watchVars == <<wlock, stream, wstate, wdelivered, wevents>>

----------------------------------------------------------------------------
(* Bounds of the model.                                                     *)

MaxCalls == 3       \* calls started in one behaviour
MaxLease == 2       \* lease ids the store grants in one behaviour
MaxFail  == 1       \* store requests that fail in one behaviour

----------------------------------------------------------------------------
(* Maps (HashMap) as functions; the empty map is built the same way as     *)
(* every other so that equal maps are equal values.                        *)

EmptyMap == [k \in {} |-> k]

MapPut(m, k, v) == [x \in (DOMAIN m) \cup {k} |-> IF x = k THEN v ELSE m[x]]

MapRemove(m, k) == [x \in (DOMAIN m) \ {k} |-> m[x]]

(* Option<T> as a set with at most one element. *)
None == {}

Some(x) == {x}

TheOne(s) == CHOOSE x \in s : TRUE

MapGet(m, k) == IF k \in DOMAIN m THEN Some(m[k]) ELSE None

----------------------------------------------------------------------------
(* Characters and byte order of the keys.                                  *)

Ord(c) ==
    CASE c = "-" -> 45
      [] c = "/" -> 47
      [] c = "1" -> 49
      [] c = "2" -> 50
      [] c = "3" -> 51
      [] c = "a" -> 97
      [] c = "b" -> 98
      [] c = "e" -> 101
      [] c = "g" -> 103
      [] c = "i" -> 105
      [] c = "n" -> 110
      [] c = "r" -> 114
      [] c = "s" -> 115
      [] c = "t" -> 116
      [] c = "v" -> 118
      [] c = "y" -> 121

RECURSIVE StrLess(_, _)
StrLess(a, b) ==
    IF b = <<>> THEN FALSE
    ELSE IF a = <<>> THEN TRUE
    ELSE IF Head(a) = Head(b) THEN StrLess(Tail(a), Tail(b))
    ELSE Ord(Head(a)) < Ord(Head(b))

IsPrefix(p, s) == Len(p) <= Len(s) /\ SubSeq(s, 1, Len(p)) = p

(* The keys of S in ascending byte order: the order of a range scan. *)
RECURSIVE SortKeys(_)
SortKeys(S) ==
    IF S = {} THEN <<>>
    ELSE LET m == CHOOSE x \in S : \A y \in S \ {x} : StrLess(x, y)
         IN  <<m>> \o SortKeys(S \ {m})

----------------------------------------------------------------------------
(* types.rs: Node, Service and the content hash of a node.                 *)

Node(id, address, port, metadata) ==
    [id |-> id, address |-> address, port |-> port, metadata |-> metadata]

Service(name, version, metadata, nodes) ==
    [name |-> name, version |-> version, metadata |-> metadata,
     endpoints |-> <<>>, nodes |-> nodes]

(* Service::new(): the blank service. *)
ServiceNew == Service(<<>>, <<>>, {}, <<>>)

(* impl Hash for Node: id, address and port are fed to the caller's hasher;
   the metadata pairs are written to a hasher of their own whose result is
   dropped.  The 64-bit SipHash value is modelled by the tuple it hashes. *)
HashNode(n) == <<n.id, n.address, n.port>>

(* A `registers` entry: the hash, and (history, read by no decision of the
   code) the node it was computed from. *)
HashEntry(n) == [h |-> HashNode(n), src |-> n]


----------------------------------------------------------------------------
(* Key encoding and value encoding (the helpers etcd/lib.rs imports from   *)
(* its parent module).                                                     *)

PREFIX == <<"/", "v", "i", "n", "e", "/", "r", "e", "g", "i", "s", "t", "r", "y">>

(* str::replace("/", "-") *)
RECURSIVE sanitize(_)
sanitize(s) ==
    IF s = <<>> THEN <<>>
    ELSE <<IF Head(s) = "/" THEN "-" ELSE Head(s)>> \o sanitize(Tail(s))

node_path(name, id) == PREFIX \o <<"/">> \o sanitize(name) \o <<"/">> \o sanitize(id)

service_path(name) == PREFIX \o <<"/">> \o sanitize(name)

(* format!("{}{}", s.name, node.id): the tracker key. *)
TrackerKey(name, id) == name \o id

(* A stored value is the JSON text of a Service ("json"), some other text
   ("text", which serde_json rejects) or bytes that are not UTF-8 ("bin"). *)
encode(svc) == [kind |-> "json", svc |-> svc]

TextValue == [kind |-> "text", svc |-> ServiceNew]

BinValue == [kind |-> "bin", svc |-> ServiceNew]

(* kv.value_str() / str::from_utf8(kv.value()) succeeds. *)
IsUtf8(v) == v.kind # "bin"

decode(v) == IF v.kind = "json" THEN Some(v.svc) ELSE None

----------------------------------------------------------------------------
(* The coordination store, at its boundary: single-key and prefix reads.   *)

KV(k) == [key |-> k, value |-> store[k].value, lease |-> store[k].lease]

StoreGet(k) == IF k \in DOMAIN store THEN <<KV(k)>> ELSE <<>>

RECURSIVE KVs(_)
KVs(keys) == IF keys = <<>> THEN <<>> ELSE <<KV(Head(keys))>> \o KVs(Tail(keys))

StoreGetPrefix(prefix) == KVs(SortKeys({k \in DOMAIN store : IsPrefix(prefix, k)}))

----------------------------------------------------------------------------
(* Tasks, calls and results.                                               *)

Tasks == {"t1", "t2"}

NoTask == "none"

Call(op, svc, name, via) == [op |-> op, svc |-> svc, name |-> name, via |-> via, idx |-> 1]

NoCall == Call("none", ServiceNew, <<>>, "direct")

NoRes == [kind |-> "none", err |-> "", val |-> <<>>]

Ok(val) == [kind |-> "ok", err |-> "", val |-> val]

Err(e) == [kind |-> "err", err |-> e, val |-> <<>>]

(* The locals of one register_node (or one deregister) body.  ttl is the
   TTL of the lease-grant; reqs, failed,
   seen, snap, skipped and committed are history: the store requests the
   body has issued and those of them that failed, what a read (or the watch
   stream) handed to it, the tracker as it was cloned, and which exit the
   body took. *)
LocInit ==
    [registers |-> EmptyMap, leases |-> EmptyMap, lease_not_found |-> FALSE,
     lease_id |-> 0, ttl |-> 0, ret |-> "none", reqs |-> <<>>, failed |-> {},
     seen |-> <<>>,
     snap |-> [registers |-> EmptyMap, leases |-> EmptyMap],
     skipped |-> FALSE, committed |-> FALSE]

CurNode(p) == call[p].svc.nodes[call[p].idx]

CurKey(p) == TrackerKey(call[p].svc.name, CurNode(p).id)

(* Lines 96, 171 and 239: the node's key in the store. *)
ServicePathOnly(p) == service_path(call[p].svc.name)

CurPath(p) == node_path(call[p].svc.name, CurNode(p).id)

(* register / deregister: `if s.nodes.len() == 0 { return Err(..) }` *)
ValidatesAnything(c) == TRUE

Validates(c) == c.op \in {"register", "deregister"} => c.svc.nodes # <<>>

FirstPc(c) ==
    CASE c.op = "register"     -> "rn_lock"
      [] c.op = "deregister"   -> "dr_lock"
      [] c.op = "get_service"  -> "gs_get"
      [] c.op = "list_service" -> "ls_get"
      [] c.op = "next"         -> "nx_lock"
      [] c.op = "stop"         -> "st_lock"

(* The pcs at which a task is suspended on a store request. *)
StorePcs == {"rn_get", "rn_ka", "rn_grant", "rn_put", "dr_del", "gs_get", "ls_get"}

(* An entry of prev: a call and how it ended. *)
Done(c, r) == [op |-> c.op, svc |-> c.svc, name |-> c.name, kind |-> r.kind, err |-> r.err]

(* A call returns r: the guard of the crate-level function, if the call
   came through one, is dropped as the function returns. *)
Return(p, r) ==
    /\ pc' = [pc EXCEPT ![p] = "done"]
    /\ res' = [res EXCEPT ![p] = r]
    /\ glock' = IF glock = p THEN NoTask ELSE glock

(* A store request fails (transport error, timeout): at most MaxFail do. *)
MayFail == nfail < MaxFail

Failed == nfail' = nfail + 1


----------------------------------------------------------------------------
(* EtcdRegistry::register_node (etcd/lib.rs 73-190).                        *)

(* Lines 99-118: the loop over the kvs of the single-key read.  A record
   with a lease is decoded and its first node's lease and hash are entered
   in the local maps under the key of the DECODED service and node. *)
RECURSIVE Adopt(_, _)
Adopt(kvs, st) ==
    IF kvs = <<>> \/ st.err THEN st
    ELSE LET kv  == Head(kvs)
             svc == decode(kv.value)
         IN  IF kv.lease > 0
             THEN IF ~IsUtf8(kv.value)
                  THEN [st EXCEPT !.err = TRUE]
                  ELSE IF svc = None \/ TheOne(svc).nodes = <<>>
                  THEN Adopt(Tail(kvs), st)
                  ELSE LET s    == TheOne(svc)
                           node == Head(s.nodes)
                           k    == TrackerKey(s.name, node.id)
                       IN  Adopt(Tail(kvs),
                                 [st EXCEPT !.leases = MapPut(@, k, kv.lease),
                                            !.registers = MapPut(@, k, HashEntry(node))])
             ELSE Adopt(Tail(kvs), st)

(* Lines 136-145: the write is skipped when a cached hash exists, equals
   the node's hash, and the renewal did not fail. *)
SkipWriteNever(cached, hash, lease_not_found) == FALSE

SkipWriteThoughNotRenewed(cached, hash, lease_not_found) ==
    cached # None /\ TheOne(cached).h = hash

SkipWrite(cached, hash, lease_not_found) ==
    /\ cached # None
    /\ TheOne(cached).h = hash
    /\ ~lease_not_found

(* Lines 131-145, after the match on the cached lease: return Ok at once,
   or go on to the lease-grant. *)
Decide(p, l) ==
    IF SkipWrite(MapGet(l.registers, CurKey(p)), HashNode(CurNode(p)), l.lease_not_found)
    THEN /\ loc' = [loc EXCEPT ![p] = [l EXCEPT !.ret = "ok", !.skipped = TRUE]]
         /\ pc' = [pc EXCEPT ![p] = "rn_ret"]
    ELSE /\ loc' = [loc EXCEPT ![p] = l]
         /\ pc' = [pc EXCEPT ![p] = "rn_grant"]

(* Line 86: `self.data.lock().await`. *)
RnLock(p) ==
    /\ pc[p] = "rn_lock"
    /\ lock = NoTask
    /\ lock' = p
    /\ pc' = [pc EXCEPT ![p] = "rn_snap"]
    /\ UNCHANGED <<store, active, nextLease, data, glock, call, loc, res, ncalls, nfail, cfg, elocks, cell>>
    /\ UNCHANGED watchVars
    /\ UNCHANGED prev

(* The guard of line 86 is a temporary of the block: it is dropped at the
   closing brace, before the match on the cached lease. *)
GuardKept(p) == p

GuardDropped(p) == NoTask

(* Lines 86-91: clone both maps, drop the guard, match on leases.get(key). *)
RnSnapshot(p) ==
    /\ pc[p] = "rn_snap"
    /\ lock' = GuardDropped(p)
    /\ LET l == [LocInit EXCEPT !.registers = data.registers, !.leases = data.leases,
                                !.snap = data]
           cached == MapGet(data.leases, CurKey(p))
       IN  IF cached = None
           THEN /\ loc' = [loc EXCEPT ![p] = l]
                /\ pc' = [pc EXCEPT ![p] = "rn_get"]
           ELSE IF TheOne(cached) > 0
           THEN /\ loc' = [loc EXCEPT ![p] = l]
                /\ pc' = [pc EXCEPT ![p] = "rn_ka"]
           ELSE Decide(p, l)
    /\ UNCHANGED <<store, active, nextLease, data, glock, call, res, ncalls, nfail, cfg, elocks, cell>>
    /\ UNCHANGED watchVars
    /\ UNCHANGED prev

(* The read with the adopted entries entered in the tracker itself, at
   once, instead of in the body's clones. *)
RnGetAdoptsInTracker(p) ==
    /\ pc[p] = "rn_get"
    /\ LET l == [loc[p] EXCEPT !.reqs = Append(@, "get")]
       IN  \/ /\ MayFail
              /\ Failed
              /\ loc' = [loc EXCEPT ![p] = [l EXCEPT !.ret = "err", !.failed = @ \cup {"get"}]]
              /\ pc' = [pc EXCEPT ![p] = "rn_ret"]
              /\ UNCHANGED data
           \/ /\ UNCHANGED nfail
              /\ LET st == Adopt(StoreGet(CurPath(p)),
                                 [err |-> FALSE, registers |-> l.registers,
                                  leases |-> l.leases])
                 IN  IF st.err
                     THEN /\ loc' = [loc EXCEPT ![p] = [l EXCEPT !.ret = "err"]]
                          /\ pc' = [pc EXCEPT ![p] = "rn_ret"]
                          /\ UNCHANGED data
                     ELSE /\ Decide(p, [l EXCEPT !.registers = st.registers,
                                                 !.leases = st.leases,
                                                 !.seen = StoreGet(CurPath(p))])
                          /\ data' = [registers |-> st.registers, leases |-> st.leases]
    /\ UNCHANGED <<store, active, nextLease, lock, glock, call, res, ncalls, cfg, elocks, cell>>
    /\ UNCHANGED watchVars
    /\ UNCHANGED prev

(* Lines 92-119: no cached lease; a serializable read of the node's key. *)
RnGet(p) ==
    /\ pc[p] = "rn_get"
    /\ LET l == [loc[p] EXCEPT !.reqs = Append(@, "get")]
       IN  \/ /\ MayFail
              /\ Failed
              /\ loc' = [loc EXCEPT ![p] = [l EXCEPT !.ret = "err", !.failed = @ \cup {"get"}]]
              /\ pc' = [pc EXCEPT ![p] = "rn_ret"]
           \/ /\ UNCHANGED nfail
              /\ LET st == Adopt(StoreGet(CurPath(p)),
                                 [err |-> FALSE, registers |-> l.registers,
                                  leases |-> l.leases])
                 IN  IF st.err
                     THEN /\ loc' = [loc EXCEPT ![p] = [l EXCEPT !.ret = "err"]]
                          /\ pc' = [pc EXCEPT ![p] = "rn_ret"]
                     ELSE Decide(p, [l EXCEPT !.registers = st.registers,
                                              !.leases = st.leases,
                                              !.seen = StoreGet(CurPath(p))])
    /\ UNCHANGED <<store, active, nextLease, data, lock, glock, call, res, ncalls, cfg, elocks, cell>>
    /\ UNCHANGED watchVars
    /\ UNCHANGED prev

(* Lines 120-127: a cached lease; keep-alive.  The renewal fails when the
   store no longer holds the lease, or when the request itself fails; the
   failure only sets lease_not_found. *)
RnKeepAlive(p) ==
    /\ pc[p] = "rn_ka"
    /\ LET l == [loc[p] EXCEPT !.reqs = Append(@, "keepalive")]
           lease == l.leases[CurKey(p)]
       IN  \/ /\ lease \in active
              /\ UNCHANGED nfail
              /\ Decide(p, l)
           \/ /\ lease \notin active
              /\ UNCHANGED nfail
              /\ Decide(p, [l EXCEPT !.lease_not_found = TRUE,
                                      !.failed = @ \cup {"keepalive"}])
           \/ /\ lease \in active
              /\ MayFail
              /\ Failed
              /\ Decide(p, [l EXCEPT !.lease_not_found = TRUE,
                                      !.failed = @ \cup {"keepalive"}])
    /\ UNCHANGED <<store, active, nextLease, data, lock, glock, call, res, ncalls, cfg, elocks, cell>>
    /\ UNCHANGED watchVars
    /\ UNCHANGED prev

(* Lines 156-161: `if let Ok(rsp) = lgr { .. }` has no else: after a failed
   lease-grant lease_id is still 0 and the body goes on to the put. *)
GrantFailedAborts(p, l) ==
    /\ loc' = [loc EXCEPT ![p] = [l EXCEPT !.ret = "err", !.failed = @ \cup {"grant"}]]
    /\ pc' = [pc EXCEPT ![p] = "rn_ret"]

GrantFailed(p, l) ==
    /\ loc' = [loc EXCEPT ![p] = [l EXCEPT !.lease_id = 0, !.failed = @ \cup {"grant"}]]
    /\ pc' = [pc EXCEPT ![p] = "rn_put"]

(* options.rs 37-40: RegisterOptions::new(). *)
RegisterOptionsNew == [ttl |-> 15]

(* The `opt` argument of a register call: None unless the call carries one. *)
OptOf(c) == IF "opt" \in DOMAIN c THEN c.opt ELSE None

(* EtcdRegistry::register, lines 211-214: the options handed to every
   register_node of the call. *)
Popt(opt) == IF opt = None THEN RegisterOptionsNew ELSE TheOne(opt)

(* A lease-grant that always asks for the default 15 seconds. *)
TtlDefaultOnly(opt) == 15

(* Lines 150-153: `let mut ttl = 15; if let Some(o) = opt { ttl = o.ttl }`. *)
Ttl(opt) == IF opt = None THEN 15 ELSE TheOne(opt).ttl

(* Lines 150-161: lease_grant(ttl); a failed grant leaves lease_id = 0. *)
RnGrant(p) ==
    /\ pc[p] = "rn_grant"
    /\ LET l == [loc[p] EXCEPT !.reqs = Append(@, "grant"),
                               !.ttl = Ttl(Some(Popt(OptOf(call[p]))))]
       IN  \/ /\ nextLease <= MaxLease
              /\ active' = active \cup {nextLease}
              /\ nextLease' = nextLease + 1
              /\ loc' = [loc EXCEPT ![p] = [l EXCEPT !.lease_id = nextLease]]
              /\ pc' = [pc EXCEPT ![p] = "rn_put"]
              /\ UNCHANGED nfail
           \/ /\ MayFail
              /\ Failed
              /\ GrantFailed(p, l)
              /\ UNCHANGED <<active, nextLease>>
    /\ UNCHANGED <<store, data, lock, glock, call, res, ncalls, cfg, elocks, cell>>
    /\ UNCHANGED watchVars
    /\ UNCHANGED prev

(* Lines 147-148: the single-node copy of the service that is written. *)
(* The service as passed to register, with all of its nodes. *)
WholeService(s, node) == s

SingleNode(s, node) == [s EXCEPT !.nodes = <<node>>]

(* Lines 170-181: put(node_path, encode(svc), lease); on success the local
   maps take the hash and, if a lease was granted, the lease id. *)
RnPut(p) ==
    /\ pc[p] = "rn_put"
    /\ LET l == [loc[p] EXCEPT !.reqs = Append(@, "put")]
           k == CurKey(p)
       IN  \/ /\ l.lease_id = 0 \/ l.lease_id \in active
              /\ store' = MapPut(store, CurPath(p),
                                 [value |-> encode(SingleNode(call[p].svc, CurNode(p))),
                                  lease |-> l.lease_id])
              /\ loc' = [loc EXCEPT ![p] =
                           [l EXCEPT !.registers = MapPut(@, k, HashEntry(CurNode(p))),
                                     !.leases = IF l.lease_id # 0
                                                THEN MapPut(@, k, l.lease_id) ELSE @]]
              /\ pc' = [pc EXCEPT ![p] = "rn_clock"]
              /\ UNCHANGED nfail
           \/ /\ l.lease_id # 0 /\ l.lease_id \notin active
              /\ loc' = [loc EXCEPT ![p] = [l EXCEPT !.ret = "err",
                                                     !.failed = @ \cup {"put"}]]
              /\ pc' = [pc EXCEPT ![p] = "rn_ret"]
              /\ UNCHANGED <<store, nfail>>
           \/ /\ MayFail
              /\ Failed
              /\ loc' = [loc EXCEPT ![p] = [l EXCEPT !.ret = "err",
                                                     !.failed = @ \cup {"put"}]]
              /\ pc' = [pc EXCEPT ![p] = "rn_ret"]
              /\ UNCHANGED store
    /\ UNCHANGED <<active, nextLease, data, lock, glock, call, res, ncalls, cfg, elocks, cell>>
    /\ UNCHANGED watchVars
    /\ UNCHANGED prev

(* Line 184: `self.data.lock().await`. *)
RnCommitLock(p) ==
    /\ pc[p] = "rn_clock"
    /\ lock = NoTask
    /\ lock' = p
    /\ pc' = [pc EXCEPT ![p] = "rn_commit"]
    /\ UNCHANGED <<store, active, nextLease, data, glock, call, loc, res, ncalls, nfail, cfg, elocks, cell>>
    /\ UNCHANGED watchVars
    /\ UNCHANGED prev

(* Lines 185-189: both maps are overwritten with the local copies, the
   guard is dropped, Ok(()). *)
RnCommit(p) ==
    /\ pc[p] = "rn_commit"
    /\ data' = [registers |-> loc[p].registers, leases |-> loc[p].leases]
    /\ lock' = NoTask
    /\ loc' = [loc EXCEPT ![p].ret = "ok", ![p].committed = TRUE]
    /\ pc' = [pc EXCEPT ![p] = "rn_ret"]
    /\ UNCHANGED <<store, active, nextLease, glock, call, res, ncalls, nfail, cfg, elocks, cell>>
    /\ UNCHANGED watchVars
    /\ UNCHANGED prev

(* EtcdRegistry::register, lines 216-220: `register_node(..).await?` for
   each node in list order; the first error is returned. *)
RegisterLoopKeepsGoing(p) ==
    /\ pc[p] = "rn_ret"
    /\ IF call[p].idx < Len(call[p].svc.nodes)
       THEN /\ call' = [call EXCEPT ![p].idx = @ + 1]
            /\ pc' = [pc EXCEPT ![p] = "rn_lock"]
            /\ UNCHANGED <<res, glock>>
       ELSE /\ Return(p, IF loc[p].ret = "err" THEN Err("infrastructure") ELSE Ok(<<>>))
            /\ UNCHANGED call
    /\ UNCHANGED <<store, active, nextLease, data, lock, loc, ncalls, nfail, cfg, elocks, cell>>
    /\ UNCHANGED watchVars
    /\ UNCHANGED prev

RegisterLoop(p) ==
    /\ pc[p] = "rn_ret"
    /\ IF loc[p].ret = "err"
       THEN Return(p, Err("infrastructure")) /\ UNCHANGED call
       ELSE IF call[p].idx < Len(call[p].svc.nodes)
       THEN /\ call' = [call EXCEPT ![p].idx = @ + 1]
            /\ pc' = [pc EXCEPT ![p] = "rn_lock"]
            /\ UNCHANGED <<res, glock>>
       ELSE Return(p, Ok(<<>>)) /\ UNCHANGED call
    /\ UNCHANGED <<store, active, nextLease, data, lock, loc, ncalls, nfail, cfg, elocks, cell>>
    /\ UNCHANGED watchVars
    /\ UNCHANGED prev

----------------------------------------------------------------------------
(* EtcdRegistry::deregister (etcd/lib.rs 223-244).                          *)

(* Line 233: `self.data.lock().await`. *)
DrLock(p) ==
    /\ pc[p] = "dr_lock"
    /\ lock = NoTask
    /\ lock' = p
    /\ pc' = [pc EXCEPT ![p] = "dr_rm"]
    /\ UNCHANGED <<store, active, nextLease, data, glock, call, loc, res, ncalls, nfail, cfg, elocks, cell>>
    /\ UNCHANGED watchVars
    /\ UNCHANGED prev

(* Lines 234-235: `data.0.remove(&key); data.1.remove(&key);`. *)
RemoveLeaseOnly(d, key) ==
    [registers |-> d.registers, leases |-> MapRemove(d.leases, key)]

RemoveHashOnly(d, key) ==
    [registers |-> MapRemove(d.registers, key), leases |-> d.leases]

RemoveEntries(d, key) ==
    [registers |-> MapRemove(d.registers, key), leases |-> MapRemove(d.leases, key)]

(* Lines 232-236: remove the key from both maps; the guard is dropped at
   the end of the block, before the delete is sent. *)
DrRemove(p) ==
    /\ pc[p] = "dr_rm"
    /\ data' = RemoveEntries(data, CurKey(p))
    /\ lock' = NoTask
    /\ pc' = [pc EXCEPT ![p] = "dr_del"]
    /\ UNCHANGED <<store, active, nextLease, glock, call, loc, res, ncalls, nfail, cfg, elocks, cell>>
    /\ UNCHANGED watchVars
    /\ UNCHANGED prev

(* Lines 238-243 without the `?`: a failed delete is passed over and the
   loop goes on to the next node. *)
DrDeleteKeepsGoing(p) ==
    /\ pc[p] = "dr_del"
    /\ loc' = [loc EXCEPT ![p].reqs = Append(@, "delete")]
    /\ \/ MayFail /\ Failed /\ UNCHANGED store
       \/ UNCHANGED nfail /\ store' = MapRemove(store, CurPath(p))
    /\ IF call[p].idx < Len(call[p].svc.nodes)
       THEN /\ call' = [call EXCEPT ![p].idx = @ + 1]
            /\ pc' = [pc EXCEPT ![p] = "dr_lock"]
            /\ UNCHANGED <<res, glock>>
       ELSE Return(p, Ok(<<>>)) /\ UNCHANGED call
    /\ UNCHANGED <<active, nextLease, data, lock, ncalls, cfg, elocks, cell>>
    /\ UNCHANGED watchVars
    /\ UNCHANGED prev

(* Lines 238-243: delete(node_path).await?; then the next node, or Ok. *)
DrDelete(p) ==
    /\ pc[p] = "dr_del"
    /\ loc' = [loc EXCEPT ![p].reqs = Append(@, "delete")]
    /\ \/ /\ MayFail
          /\ Failed
          /\ Return(p, Err("infrastructure"))
          /\ UNCHANGED <<store, call>>
       \/ /\ UNCHANGED nfail
          /\ store' = MapRemove(store, CurPath(p))
          /\ IF call[p].idx < Len(call[p].svc.nodes)
             THEN /\ call' = [call EXCEPT ![p].idx = @ + 1]
                  /\ pc' = [pc EXCEPT ![p] = "dr_lock"]
                  /\ UNCHANGED <<res, glock>>
             ELSE Return(p, Ok(<<>>)) /\ UNCHANGED call
    /\ UNCHANGED <<active, nextLease, data, lock, ncalls, cfg, elocks, cell>>
    /\ UNCHANGED watchVars
    /\ UNCHANGED prev

----------------------------------------------------------------------------
(* get_service and list_service (etcd/lib.rs 246-319).                      *)

(* Lines 259-273 and 298-312: the HashMap m, keyed by the version alone.
   An entry whose value is not UTF-8 ends the call (`value_str()?`); one
   that does not decode is passed over; the first record seen for a version
   is kept and the nodes of later records of that version are appended. *)
MergeKeepFirst(first, sn) == first

(* Lines 268-270 and 307-309: `s.nodes = vec![s.nodes, sn.nodes].concat()`. *)
Merge(first, sn) == [first EXCEPT !.nodes = @ \o sn.nodes]

RECURSIVE Aggregate(_, _)
Aggregate(kvs, st) ==
    IF kvs = <<>> \/ st.err THEN st
    ELSE LET kv == Head(kvs)
             sn == decode(kv.value)
         IN  IF ~IsUtf8(kv.value) THEN [st EXCEPT !.err = TRUE]
             ELSE IF sn = None THEN Aggregate(Tail(kvs), st)
             ELSE LET s == TheOne(sn)
                      v == s.version
                  IN  IF v \notin DOMAIN st.m
                      THEN Aggregate(Tail(kvs), [st EXCEPT !.m = MapPut(@, v, s)])
                      ELSE Aggregate(Tail(kvs),
                               [st EXCEPT !.m = MapPut(@, v, Merge(st.m[v], s))])

AggregateAll(kvs) == Aggregate(kvs, [err |-> FALSE, m |-> EmptyMap])

RECURSIVE ValuesInOrder(_, _)
ValuesInOrder(m, keys) ==
    IF keys = <<>> THEN <<>> ELSE <<m[Head(keys)]>> \o ValuesInOrder(m, Tail(keys))

(* The orders in which a HashMap may be iterated: every order of its keys. *)
Orders(S) == {q \in [1..Cardinality(S) -> S] : \A x \in S : \E i \in DOMAIN q : q[i] = x}

(* Lines 254-283: what get_service returns once the prefix read under
   service_path(name) + "/" has succeeded.  The result is built by iterating
   the HashMap, so its order is any order of the versions. *)
GetServiceOutcomes(name) ==
    LET kvs == StoreGetPrefix(service_path(name) \o <<"/">>)
        st  == AggregateAll(kvs)
    IN  IF kvs = <<>> THEN {Err("notfound")}
        ELSE IF st.err THEN {Err("infrastructure")}
        ELSE {Ok(ValuesInOrder(st.m, q)) : q \in Orders(DOMAIN st.m)}

(* The versions in whatever order the HashMap yields them, as get_service
   returns them. *)
ListOrderOfTheMap(S) == Orders(S)

(* Line 314: `m.keys().sorted()`, the one order list_service walks the
   versions in. *)
ListOrder(S) == {SortKeys(S)}

(* An empty scan reported as "not found", as get_service does. *)
EmptyListNotFound == Err("notfound")

(* Lines 293-296: `return Ok(services)` with the empty Vec when the scan
   of PREFIX returned no entry. *)
EmptyList == Ok(<<>>)

(* Lines 293-318: what list_service returns once the read of PREFIX has
   succeeded; `m.keys().sorted()`. *)
ListServiceOutcomes ==
    LET kvs == StoreGetPrefix(PREFIX)
        st  == AggregateAll(kvs)
    IN  IF kvs = <<>> THEN {EmptyList}
        ELSE IF st.err THEN {Err("infrastructure")}
        ELSE {Ok(ValuesInOrder(st.m, q)) : q \in ListOrder(DOMAIN st.m)}

(* Lines 246-284.  seen (history) is the response of the read; ret = "err"
   (history) marks a read that failed. *)
GetService(p) ==
    /\ pc[p] = "gs_get"
    /\ \/ /\ MayFail
          /\ Failed
          /\ loc' = [loc EXCEPT ![p].reqs = Append(@, "get"), ![p].ret = "err"]
          /\ Return(p, Err("infrastructure"))
       \/ /\ UNCHANGED nfail
          /\ loc' = [loc EXCEPT ![p].reqs = Append(@, "get"),
                                ![p].seen = StoreGetPrefix(service_path(call[p].name) \o <<"/">>)]
          /\ \E r \in GetServiceOutcomes(call[p].name) : Return(p, r)
    /\ UNCHANGED <<store, active, nextLease, data, lock, call, ncalls, cfg, elocks, cell>>
    /\ UNCHANGED watchVars
    /\ UNCHANGED prev

(* Lines 286-319. *)
ListService(p) ==
    /\ pc[p] = "ls_get"
    /\ \/ /\ MayFail
          /\ Failed
          /\ loc' = [loc EXCEPT ![p].reqs = Append(@, "get"), ![p].ret = "err"]
          /\ Return(p, Err("infrastructure"))
       \/ /\ UNCHANGED nfail
          /\ loc' = [loc EXCEPT ![p].reqs = Append(@, "get"),
                                ![p].seen = StoreGetPrefix(PREFIX)]
          /\ \E r \in ListServiceOutcomes : Return(p, r)
    /\ UNCHANGED <<store, active, nextLease, data, lock, call, ncalls, cfg, elocks, cell>>
    /\ UNCHANGED watchVars
    /\ UNCHANGED prev

----------------------------------------------------------------------------
(* The Watcher (etcd/watch.rs).  One subscription, opened by               *)
(* EtcdWatcher::new; `w` is a Mutex around (watcher, stream).              *)

WatchKV(value, create_revision, mod_revision) ==
    [value |-> value, create_revision |-> create_revision, mod_revision |-> mod_revision]

WatchEvent(type, kv, prev_kv) == [type |-> type, kv |-> kv, prev_kv |-> prev_kv]

WatchResponse(canceled, events) == [canceled |-> canceled, events |-> events]

(* Lines 45-49: a put is a "create" when the key's creation revision is its
   modification revision, an "update" otherwise. *)
PutActionSwapped(kv) == IF kv.create_revision = kv.mod_revision THEN "update" ELSE "create"

PutAction(kv) == IF kv.create_revision = kv.mod_revision THEN "create" ELSE "update"

(* Lines 42-44 and 58-60: `if let Some(svc) = decode(value) { service = svc }`;
   a value that does not decode leaves the blank Service::new(). *)
DecodedOrBlank(v) == IF decode(v) = None THEN ServiceNew ELSE TheOne(decode(v))

(* Lines 54-64: the value a delete event is decoded from. *)
DeleteSource(e) == e.prev_kv

(* Lines 30-74: the loop over the events of one response.  i is the index
   of the event at the head of `events` within the response.  The outcome
   is the first event that is not passed over ("event", with the index it
   came from), an error of value_str ("error"), or nothing ("none"). *)
RECURSIVE FirstEvent(_, _)
FirstEvent(events, i) ==
    IF events = <<>> THEN [kind |-> "none", idx |-> 0, action |-> "", service |-> ServiceNew]
    ELSE LET e == Head(events)
         IN  IF e.kv = None THEN FirstEvent(Tail(events), i + 1)
             ELSE IF e.type = "put"
             THEN LET kv == TheOne(e.kv)
                  IN  IF ~IsUtf8(kv.value)
                      THEN [kind |-> "error", idx |-> i, action |-> "", service |-> ServiceNew]
                      ELSE [kind |-> "event", idx |-> i, action |-> PutAction(kv),
                            service |-> DecodedOrBlank(kv.value)]
             ELSE IF DeleteSource(e) = None THEN FirstEvent(Tail(events), i + 1)
             ELSE LET kv == TheOne(DeleteSource(e))
                  IN  IF ~IsUtf8(kv.value)
                      THEN [kind |-> "error", idx |-> i, action |-> "", service |-> ServiceNew]
                      ELSE [kind |-> "event", idx |-> i, action |-> "delete",
                            service |-> DecodedOrBlank(kv.value)]

(* types::Result as next() returns it; `from` records (history) the raw
   event it was built from and `idx` its place in the response.  The
   timestamp is left out. *)
WatchResult(f, e) == [action |-> f.action, service |-> f.service, from |-> e, idx |-> f.idx]

(* Line 24: `rc.lock().await`. *)
NxLock(p) ==
    /\ pc[p] = "nx_lock"
    /\ wlock = NoTask
    /\ wlock' = p
    /\ pc' = [pc EXCEPT ![p] = "nx_wait"]
    /\ UNCHANGED <<call, loc, res, cfg, elocks, cell, stream, wstate, wdelivered, wevents>>
    /\ UNCHANGED regVars
    /\ UNCHANGED prev

(* Lines 25 and 77: the stream has ended and every response on it has been
   read; `message()` yields no response (or a transport error) and next()
   returns an error, dropping the guard. *)
NxEnded(p) ==
    /\ pc[p] = "nx_wait"
    /\ stream = <<>>
    /\ wstate = "closed"
    /\ Return(p, Err("ended"))
    /\ wlock' = NoTask
    /\ UNCHANGED <<store, active, nextLease, data, lock, ncalls, nfail>>
    /\ UNCHANGED <<call, loc, cfg, elocks, cell, stream, wstate, wdelivered, wevents>>
    /\ UNCHANGED prev

(* No response is taken as a report of cancellation. *)
CanceledIgnored(rsp) == FALSE

(* Lines 26-28: a response that reports cancellation. *)
Canceled(rsp) == rsp.canceled

(* Lines 25-78: one turn of `while let Some(rsp) = w.1.message().await?`,
   taken with the guard of line 24 held.  The guard is dropped when next()
   returns. *)
NxMessage(p) ==
    /\ pc[p] = "nx_wait"
    /\ stream # <<>>
    /\ stream' = Tail(stream)
    /\ LET rsp == Head(stream)
           f   == FirstEvent(rsp.events, 1)
       IN  IF Canceled(rsp)
           THEN /\ Return(p, Err("canceled"))
                /\ wlock' = NoTask
                /\ UNCHANGED wevents
           ELSE IF f.kind = "error"
           THEN /\ Return(p, Err("utf8"))
                /\ wlock' = NoTask
                /\ UNCHANGED wevents
           ELSE IF f.kind = "event"
           THEN /\ Return(p, Ok(<<WatchResult(f, rsp.events[f.idx])>>))
                /\ wlock' = NoTask
                /\ wevents' = Append(wevents, WatchResult(f, rsp.events[f.idx]))
           ELSE UNCHANGED <<pc, res, glock, wlock, wevents>>
    /\ loc' = [loc EXCEPT ![p].seen = Append(@, Head(stream))]
    /\ UNCHANGED <<store, active, nextLease, data, lock, ncalls, nfail>>
    /\ UNCHANGED <<call, cfg, elocks, cell, wstate, wdelivered>>
    /\ UNCHANGED prev

(* Line 82: `rc.lock().await`. *)
StLock(p) ==
    /\ pc[p] = "st_lock"
    /\ wlock = NoTask
    /\ wlock' = p
    /\ pc' = [pc EXCEPT ![p] = "st_cancel"]
    /\ UNCHANGED <<call, loc, res, cfg, elocks, cell, stream, wstate, wdelivered, wevents>>
    /\ UNCHANGED regVars
    /\ UNCHANGED prev

(* Lines 83-84: `w.0.cancel().await`, its result ignored; the guard is
   dropped as stop() returns. *)
StCancel(p) ==
    /\ pc[p] = "st_cancel"
    /\ wstate' = IF wstate = "open" THEN "cancelling" ELSE wstate
    /\ wlock' = NoTask
    /\ Return(p, Ok(<<>>))
    /\ UNCHANGED <<store, active, nextLease, data, lock, ncalls, nfail>>
    /\ UNCHANGED <<call, loc, cfg, elocks, cell, stream, wdelivered, wevents>>
    /\ UNCHANGED prev

(* The store side of the subscription: it pushes a response with events,
   answers a cancel request with a canceled response, cancels the watch
   of its own accord, or ends the stream. *)
MaxDeliver == 2     \* responses with events pushed in one behaviour

Deliver(rsp) ==
    /\ wstate \in {"open", "cancelling"}
    /\ Len(wdelivered) < MaxDeliver
    /\ stream' = Append(stream, rsp)
    /\ wdelivered' = Append(wdelivered, rsp)
    /\ UNCHANGED <<pc, call, loc, res, cfg, elocks, cell, wlock, wstate, wevents>>
    /\ UNCHANGED regVars
    /\ UNCHANGED prev

CancelAck ==
    /\ wstate = "cancelling"
    /\ wstate' = "canceled"
    /\ stream' = Append(stream, WatchResponse(TRUE, <<>>))
    /\ wdelivered' = Append(wdelivered, WatchResponse(TRUE, <<>>))
    /\ UNCHANGED <<pc, call, loc, res, cfg, elocks, cell, wlock, wevents>>
    /\ UNCHANGED regVars
    /\ UNCHANGED prev

StoreCancel ==
    /\ wstate = "open"
    /\ wstate' = "canceled"
    /\ stream' = Append(stream, WatchResponse(TRUE, <<>>))
    /\ wdelivered' = Append(wdelivered, WatchResponse(TRUE, <<>>))
    /\ UNCHANGED <<pc, call, loc, res, cfg, elocks, cell, wlock, wevents>>
    /\ UNCHANGED regVars
    /\ UNCHANGED prev

(* The stream ends: the connection is lost or the store closes it.  The
   responses already on the stream are still read. *)
StreamEnds ==
    /\ wstate # "closed"
    /\ wstate' = "closed"
    /\ UNCHANGED <<pc, call, loc, res, cfg, elocks, cell, wlock, stream, wdelivered, wevents>>
    /\ UNCHANGED regVars
    /\ UNCHANGED prev

----------------------------------------------------------------------------
(* Calls: made on the EtcdRegistry itself ("direct"), or through the        *)
(* crate-level functions of lib.rs 56-86 ("global"), which lock the        *)
(* DEFAULT_REGISTRY mutex and hold the guard until they return.            *)

CallsOf(c) ==
    {Call("register", s, <<>>, v) : s \in c.svcs, v \in c.vias}
    \cup {Call("deregister", s, <<>>, v) : s \in c.svcs, v \in c.vias}
    \cup {Call("get_service", ServiceNew, n, v) : n \in c.names, v \in c.vias}
    \cup {Call("list_service", ServiceNew, <<>>, v) : v \in c.vias}
    \cup {Call(op, ServiceNew, <<>>, "direct") : op \in c.wops}

StartCall(p, c) ==
    /\ pc[p] = "done"
    /\ ncalls < cfg.calls
    /\ ncalls' = ncalls + 1
    /\ prev' = IF cfg.record THEN [prev EXCEPT ![p] = Done(call[p], res[p])] ELSE prev
    /\ call' = [call EXCEPT ![p] = c]
    /\ loc' = [loc EXCEPT ![p] = LocInit]
    /\ IF c.via = "global"
       THEN /\ pc' = [pc EXCEPT ![p] = "g_lock"]
            /\ res' = [res EXCEPT ![p] = NoRes]
       ELSE IF Validates(c)
       THEN /\ pc' = [pc EXCEPT ![p] = FirstPc(c)]
            /\ res' = [res EXCEPT ![p] = NoRes]
       ELSE /\ pc' = [pc EXCEPT ![p] = "done"]
            /\ res' = [res EXCEPT ![p] = Err("validation")]
    /\ UNCHANGED <<store, active, nextLease, data, lock, glock, nfail, cfg, elocks, cell>>
    /\ UNCHANGED watchVars

(* lib.rs 19-22 and 26-29: `DEFAULT_REGISTRY.get_or_init(init_registry)`
   fills the cell with the default registry if it is empty and leaves it
   as it is otherwise. *)
get_or_init(c) == IF c = "empty" THEN "default" ELSE c

(* lib.rs 58-60 (and 66-68, 74-76, 82-84): `global_registry().await`,
   `rc.lock().await`, then the method of the registry is awaited with the
   guard `m` alive. *)
GlobalLock(p) ==
    /\ pc[p] = "g_lock"
    /\ glock = NoTask
    /\ cell' = get_or_init(cell)
    /\ IF Validates(call[p])
       THEN /\ glock' = p
            /\ pc' = [pc EXCEPT ![p] = FirstPc(call[p])]
            /\ UNCHANGED res
       ELSE /\ glock' = NoTask
            /\ pc' = [pc EXCEPT ![p] = "done"]
            /\ res' = [res EXCEPT ![p] = Err("validation")]
    /\ UNCHANGED <<store, active, nextLease, data, lock, call, loc, ncalls, nfail, cfg, elocks>>
    /\ UNCHANGED watchVars
    /\ UNCHANGED prev

(* The store drops a lease that was not renewed in time, and with it every
   key the lease is attached to. *)
Expire(l) ==
    /\ l \in active
    /\ active' = active \ {l}
    /\ store' = [k \in {x \in DOMAIN store : store[x].lease # l} |-> store[k]]
    /\ UNCHANGED <<nextLease, data, lock, glock, pc, call, loc, res, ncalls, nfail, cfg, elocks, cell>>
    /\ UNCHANGED watchVars
    /\ UNCHANGED prev

----------------------------------------------------------------------------
(* Inputs.                                                                 *)

NameA == <<"a">>

NameB == <<"b">>

NameNone == <<"s">>

V1 == <<"v", "1">>

V2 == <<"v", "2">>

N1 == Node(<<"1">>, "h1", 11101, {})

N1addr == Node(<<"1">>, "h2", 11101, {})

N1meta == Node(<<"1">>, "h1", 11101, {<<"zone", "x">>})

N2 == Node(<<"2">>, "h1", 11101, {})

SA1 == Service(NameA, V1, {}, <<N1>>)

SA1addr == Service(NameA, V1, {}, <<N1addr>>)

SA1meta == Service(NameA, V1, {}, <<N1meta>>)

SA1v2 == Service(NameA, V2, {}, <<N1>>)

SA2 == Service(NameA, V1, {}, <<N2>>)

SA12 == Service(NameA, V1, {}, <<N1, N2>>)

SB1 == Service(NameB, V1, {}, <<N1>>)

SEmpty == Service(NameA, V1, {}, <<>>)

(* One task, the full set of inputs. *)
SeqCfg ==
    [tasks |-> {"t1"},
     svcs  |-> {SA1, SA1addr, SA1meta, SA12},
     names |-> {NameA, NameNone},
     vias  |-> {"direct"},
     wops  |-> {},
     record |-> TRUE,
     calls |-> MaxCalls]

(* Two tasks on one client, two keys. *)
ConcCfg ==
    [tasks |-> {"t1", "t2"},
     svcs  |-> {SA1, SA2},
     names |-> {NameA},
     vias  |-> {"direct"},
     wops  |-> {},
     record |-> FALSE,
     calls |-> MaxCalls - 1]

(* Two tasks that call the crate-level functions (and the client itself). *)
GlobalCfg ==
    [tasks |-> {"t1", "t2"},
     svcs  |-> {SA1, SA2},
     names |-> {NameA},
     vias  |-> {"direct", "global"},
     wops  |-> {},
     record |-> FALSE,
     calls |-> MaxCalls - 1]

----------------------------------------------------------------------------
(* EtcdRegistry::new (lines 30-49): both tracker maps empty.               *)

InitCommon ==
    /\ store = EmptyMap
    /\ active = {}
    /\ nextLease = 1
    /\ data = [registers |-> EmptyMap, leases |-> EmptyMap]
    /\ lock = NoTask
    /\ glock = NoTask
    /\ pc = [p \in Tasks |-> "done"]
    /\ call = [p \in Tasks |-> NoCall]
    /\ loc = [p \in Tasks |-> LocInit]
    /\ res = [p \in Tasks |-> NoRes]
    /\ ncalls = 0
    /\ nfail = 0
    /\ prev = [p \in Tasks |-> Done(NoCall, NoRes)]
    /\ wlock = NoTask
    /\ stream = <<>>
    /\ wstate = "open"
    /\ wdelivered = <<>>
    /\ wevents = <<>>
    /\ cell = "empty"
    /\ elocks = [leases |-> NoTask, registers |-> NoTask]

Init == InitCommon /\ cfg = SeqCfg

InitConc == InitCommon /\ cfg = ConcCfg

Next ==
    \/ \E p \in cfg.tasks : \E c \in CallsOf(cfg) : StartCall(p, c)
    \/ \E p \in cfg.tasks : RnLock(p)
    \/ \E p \in cfg.tasks : RnSnapshot(p)
    \/ \E p \in cfg.tasks : RnGet(p)
    \/ \E p \in cfg.tasks : RnKeepAlive(p)
    \/ \E p \in cfg.tasks : RnGrant(p)
    \/ \E p \in cfg.tasks : RnPut(p)
    \/ \E p \in cfg.tasks : RnCommitLock(p)
    \/ \E p \in cfg.tasks : RnCommit(p)
    \/ \E p \in cfg.tasks : RegisterLoop(p)
    \/ \E p \in cfg.tasks : DrLock(p)
    \/ \E p \in cfg.tasks : DrRemove(p)
    \/ \E p \in cfg.tasks : DrDelete(p)
    \/ \E p \in cfg.tasks : GetService(p)
    \/ \E p \in cfg.tasks : ListService(p)
    \/ \E l \in active : Expire(l)

Spec == Init /\ [][Next]_vars

SpecConc == InitConc /\ [][Next]_vars

InitGlobal == InitCommon /\ cfg = GlobalCfg

NextGlobal ==
    \/ Next
    \/ \E p \in cfg.tasks : GlobalLock(p)

SpecGlobal == InitGlobal /\ [][NextGlobal]_vars


----------------------------------------------------------------------------
(* The Watcher's specification: two tasks call next() and stop() on one     *)
(* Watcher while the store pushes responses drawn from WatchResponses.     *)

KvCreated == WatchKV(encode(SA1), 1, 1)

KvUpdated == WatchKV(encode(SA1addr), 1, 2)

KvTombstone == WatchKV(TextValue, 1, 3)

KvText == WatchKV(TextValue, 2, 2)

EvCreate == WatchEvent("put", Some(KvCreated), None)

EvUpdate == WatchEvent("put", Some(KvUpdated), Some(KvCreated))

EvDelete == WatchEvent("delete", Some(KvTombstone), Some(KvUpdated))

EvDeleteNoPrev == WatchEvent("delete", Some(KvTombstone), None)

EvNoKv == WatchEvent("put", None, None)

EvDeleteNoKv == WatchEvent("delete", None, Some(KvUpdated))

EvPutText == WatchEvent("put", Some(KvText), None)

EvPutBin == WatchEvent("put", Some(WatchKV(BinValue, 2, 2)), None)

WatchResponses ==
    {WatchResponse(FALSE, <<e>>) :
        e \in {EvCreate, EvUpdate, EvDelete, EvDeleteNoPrev, EvNoKv, EvPutText, EvPutBin}}
    \cup {WatchResponse(FALSE, <<EvDeleteNoKv, EvDeleteNoPrev, EvUpdate>>),
          WatchResponse(FALSE, <<EvCreate, EvDelete>>),
          WatchResponse(FALSE, <<>>)}

WatchCfg ==
    [tasks |-> {"t1", "t2"}, svcs |-> {}, names |-> {}, vias |-> {},
     wops |-> {"next", "stop"}, record |-> FALSE, calls |-> MaxCalls - 1]

InitWatch == InitCommon /\ cfg = WatchCfg

NextWatch ==
    \/ \E p \in cfg.tasks : \E c \in CallsOf(cfg) : StartCall(p, c)
    \/ \E p \in cfg.tasks : NxLock(p)
    \/ \E p \in cfg.tasks : NxMessage(p)
    \/ \E p \in cfg.tasks : NxEnded(p)
    \/ \E p \in cfg.tasks : StLock(p)
    \/ \E p \in cfg.tasks : StCancel(p)
    \/ \E rsp \in WatchResponses : Deliver(rsp)
    \/ CancelAck
    \/ StoreCancel
    \/ StreamEnds

SpecWatch == InitWatch /\ [][NextWatch]_vars

(* The same, with the tasks scheduled fairly: a call that can take its
   next step takes it.  Nothing is assumed of the store side: it need not
   push a response, cancel the watch, or end the stream. *)
FairWatch ==
    \A p \in WatchCfg.tasks :
        /\ WF_vars(NxLock(p))
        /\ WF_vars(NxMessage(p))
        /\ WF_vars(NxEnded(p))
        /\ WF_vars(StLock(p))
        /\ WF_vars(StCancel(p))

SpecWatchFair == InitWatch /\ [][NextWatch]_vars /\ FairWatch


----------------------------------------------------------------------------
(* The read side on its own: get_service and list_service over a store     *)
(* whose contents are drawn from ReadStores: up to three records under     *)
(* name "a" and one under name "b", of one or two versions, some with two  *)
(* nodes, some that do not decode, some that are not UTF-8.                *)

N3 == Node(<<"3">>, "h3", 11101, {})

PathA1 == node_path(NameA, <<"1">>)

PathA2 == node_path(NameA, <<"2">>)

PathA3 == node_path(NameA, <<"3">>)

PathB1 == node_path(NameB, <<"1">>)

ValsA1 == {encode(SA1), encode(Service(NameA, V2, {}, <<N1>>)), TextValue, BinValue}

ValsA2 == {encode(SA2), encode(Service(NameA, V2, {}, <<N2>>)),
           encode(Service(NameA, V1, {}, <<N2, N1>>)), TextValue}

ValsA3 == {encode(Service(NameA, V1, {}, <<N3>>)), encode(Service(NameA, V2, {}, <<N3>>))}

ValsB1 == {encode(SB1), encode(Service(NameB, V2, {}, <<N1>>)), TextValue}

Opt(S) == {None} \cup {Some(v) : v \in S}

StoreOf(a1, a2, a3, b1) ==
    LET at(k, o) == IF o = None THEN {} ELSE {k}
        keys == at(PathA1, a1) \cup at(PathA2, a2) \cup at(PathA3, a3) \cup at(PathB1, b1)
        val(k) == CASE k = PathA1 -> TheOne(a1)
                    [] k = PathA2 -> TheOne(a2)
                    [] k = PathA3 -> TheOne(a3)
                    [] k = PathB1 -> TheOne(b1)
    IN  [k \in keys |-> [value |-> val(k), lease |-> 0]]

ReadStores ==
    {StoreOf(a1, a2, a3, b1) :
        a1 \in Opt(ValsA1), a2 \in Opt(ValsA2), a3 \in Opt(ValsA3), b1 \in Opt(ValsB1)}

ReadCfg ==
    [tasks |-> {"t1"}, svcs |-> {SEmpty}, names |-> {NameA, NameB, NameNone},
     vias |-> {"direct"}, wops |-> {}, record |-> FALSE, calls |-> MaxCalls - 1]

InitRead ==
    /\ store \in ReadStores
    /\ active = {}
    /\ nextLease = 1
    /\ data = [registers |-> EmptyMap, leases |-> EmptyMap]
    /\ lock = NoTask
    /\ glock = NoTask
    /\ pc = [p \in Tasks |-> "done"]
    /\ call = [p \in Tasks |-> NoCall]
    /\ loc = [p \in Tasks |-> LocInit]
    /\ res = [p \in Tasks |-> NoRes]
    /\ ncalls = 0
    /\ nfail = 0
    /\ prev = [p \in Tasks |-> Done(NoCall, NoRes)]
    /\ wlock = NoTask
    /\ stream = <<>>
    /\ wstate = "open"
    /\ wdelivered = <<>>
    /\ wevents = <<>>
    /\ cell = "empty"
    /\ elocks = [leases |-> NoTask, registers |-> NoTask]
    /\ cfg = ReadCfg

NextRead ==
    \/ \E p \in cfg.tasks : \E c \in CallsOf(cfg) : StartCall(p, c)
    \/ \E p \in cfg.tasks : GetService(p)
    \/ \E p \in cfg.tasks : ListService(p)

SpecRead == InitRead /\ [][NextRead]_vars

----------------------------------------------------------------------------
(* Properties.                                                             *)

Range(s) == {s[i] : i \in DOMAIN s}

(* Task p has come to the end of a register_node body for a key that was
   cached, when the body began, with the hash of this very node and a lease
   id, and whose lease the store renewed. *)
RenewedSameNode(p) ==
    /\ pc[p] = "rn_ret"
    /\ CurKey(p) \in DOMAIN loc[p].snap.registers
    /\ CurKey(p) \in DOMAIN loc[p].snap.leases
    /\ loc[p].snap.registers[CurKey(p)].src = CurNode(p)
    /\ "keepalive" \in Range(loc[p].reqs)
    /\ ~loc[p].lease_not_found

(* C1: a register_node for a node that is cached unchanged (id, address,
   port, metadata) and whose lease renews sends the keep-alive and nothing
   else (no put, no lease-grant), returns Ok, and leaves the cached hash and
   the cached lease id of the key as they were. *)
C1_IdempotentRegister ==
    \A p \in cfg.tasks :
        RenewedSameNode(p) =>
            /\ loc[p].reqs = <<"keepalive">>
            /\ loc[p].ret = "ok"
            /\ MapGet(data.registers, CurKey(p)) = MapGet(loc[p].snap.registers, CurKey(p))
            /\ MapGet(data.leases, CurKey(p)) = MapGet(loc[p].snap.leases, CurKey(p))

C1_Witness ==
    \E p \in cfg.tasks :
        /\ RenewedSameNode(p)
        /\ loc[p].skipped
        /\ prev[p].op = "register"
        /\ prev[p].kind = "ok"
        /\ prev[p].svc = call[p].svc

(* The nodes differ in exactly one of address, port and metadata, and have
   the same id. *)
OneFieldAltered(a, b) ==
    /\ a.id = b.id
    /\ Cardinality({f \in {"address", "port", "metadata"} : a[f] # b[f]}) = 1

(* C2: a register_node that returns Ok for a node cached with one field
   different (address, port or a metadata value; same id) has requested a
   lease and put the record. *)
C2_ChangeDetected ==
    \A p \in cfg.tasks :
        ( /\ pc[p] = "rn_ret"
          /\ loc[p].ret = "ok"
          /\ CurKey(p) \in DOMAIN loc[p].snap.registers
          /\ OneFieldAltered(loc[p].snap.registers[CurKey(p)].src, CurNode(p)) )
        => /\ "grant" \in Range(loc[p].reqs)
           /\ "put" \in Range(loc[p].reqs)

(* C3: a stop() invoked while a next() is blocked waiting for a
   notification can take the watcher's mutex, and so go on to send the
   cancel. *)
C3_StopNotBlockedByNext ==
    \A p, q \in cfg.tasks :
        (pc[p] = "nx_wait" /\ stream = <<>> /\ pc[q] = "st_lock") => ENABLED StLock(q)

(* The positions of register_node and deregister at which a store request
   is outstanding. *)
TrackerStorePcs == {"rn_get", "rn_ka", "rn_grant", "rn_put", "dr_del"}

(* C4: in register_node and deregister the tracker lock is held only to
   snapshot the maps, to commit them, or to remove a key, and never by a
   task whose store request (get, keep-alive, lease-grant, put, delete) is
   outstanding. *)
C4_TrackerLockNotHeldAcrossStore ==
    \A p \in cfg.tasks :
        /\ pc[p] \in TrackerStorePcs => lock # p
        /\ lock = p => pc[p] \in {"rn_snap", "rn_commit", "dr_rm"}

C4_Witness ==
    \E p, q \in cfg.tasks :
        /\ lock = p
        /\ pc[p] \in {"rn_snap", "rn_commit", "dr_rm"}
        /\ pc[q] \in TrackerStorePcs
        /\ Len(loc[q].reqs) > 0

(* C5: no task suspended on a store request holds a lock, whether it called
   the registry itself or went through the crate-level functions. *)
C5_NoLockAcrossStore ==
    \A p \in cfg.tasks : pc[p] \in StorePcs => (lock # p /\ glock # p)

(* The keys the store holds under the service path of a name. *)
KeysUnder(name) == {k \in DOMAIN store : IsPrefix(service_path(name) \o <<"/">>, k)}

NodePaths(s) == {node_path(s.name, s.nodes[i].id) : i \in DOMAIN s.nodes}

(* Task p has returned Ok from deregister(s), the call before it was a
   register(s) that returned Ok, and no node other than those of s is
   registered under s.name. *)
RegisteredThenDeregistered(p) ==
    /\ pc[p] = "done"
    /\ call[p].op = "deregister"
    /\ res[p].kind = "ok"
    /\ prev[p].op = "register"
    /\ prev[p].kind = "ok"
    /\ prev[p].svc = call[p].svc
    /\ KeysUnder(call[p].svc.name) \subseteq NodePaths(call[p].svc)

(* C6: after register(s) and then deregister(s) both returned Ok, with no
   other node registered under s.name, the tracker has neither a hash nor a
   lease for any node of s, the store has no key under the service path of
   s.name, and a get_service(s.name) whose read succeeds can only return
   the "service not found" error. *)
C6_DeregisterRemoves ==
    \A p \in cfg.tasks :
        RegisteredThenDeregistered(p) =>
            LET s == call[p].svc
            IN  /\ \A i \in DOMAIN s.nodes :
                      /\ TrackerKey(s.name, s.nodes[i].id) \notin DOMAIN data.registers
                      /\ TrackerKey(s.name, s.nodes[i].id) \notin DOMAIN data.leases
                /\ KeysUnder(s.name) = {}
                /\ GetServiceOutcomes(s.name) = {Err("notfound")}

C6_Witness ==
    \E p \in cfg.tasks :
        /\ RegisteredThenDeregistered(p)
        /\ Len(call[p].svc.nodes) = 2
        /\ loc[p].reqs = <<"delete", "delete">>
        /\ nextLease > 1

(* Every lease the store has granted is still alive: no key has expired. *)
NoLeaseExpired == active = 1 .. (nextLease - 1)

(* Task p has returned from the second call of the behaviour, a read that
   the store answered; the first call was a register of the single-node
   service prev[p].svc that returned Ok, and its key has not expired. *)
ReadAfterFirstRegister(p) ==
    /\ pc[p] = "done"
    /\ ncalls = 2
    /\ prev[p].op = "register"
    /\ prev[p].kind = "ok"
    /\ Len(prev[p].svc.nodes) = 1
    /\ call[p].op \in {"get_service", "list_service"}
    /\ loc[p].ret # "err"
    /\ NoLeaseExpired

(* C7: after a register of a single-node service into an empty namespace
   returned Ok, get_service(name) returns exactly one Service whose nodes
   are exactly that node, list_service returns exactly that Service, and
   get_service of another name, never registered, returns an error. *)
C7_RegisterThenRead ==
    \A p \in cfg.tasks :
        ReadAfterFirstRegister(p) =>
            LET s == prev[p].svc
            IN  /\ (call[p].op = "get_service" /\ call[p].name = s.name)
                      => res[p] = Ok(<<s>>)
                /\ call[p].op = "list_service" => res[p] = Ok(<<s>>)
                /\ (call[p].op = "get_service" /\ call[p].name # s.name)
                      => res[p] = Err("notfound")

C7_Witness ==
    \E p \in cfg.tasks :
        /\ ReadAfterFirstRegister(p)
        /\ call[p].op = "get_service"
        /\ call[p].name = prev[p].svc.name
        /\ Len(res[p].val) = 1
        /\ res[p].val[1].nodes = <<N1>>

(* The records of a scan that decode to a Service. *)
Decoded(kvs) ==
    {TheOne(decode(kvs[i].value)) : i \in {j \in DOMAIN kvs : decode(kvs[j].value) # None}}

(* The nodes, in scan order, of the records that decode to a Service of S. *)
RECURSIVE NodesOf(_, _)
NodesOf(kvs, S) ==
    IF kvs = <<>> THEN <<>>
    ELSE LET sn == decode(Head(kvs).value)
         IN  (IF sn # None /\ TheOne(sn) \in S THEN TheOne(sn).nodes ELSE <<>>)
                 \o NodesOf(Tail(kvs), S)

(* C8: list_service returns one Service per distinct (name, version) pair
   among the records of the store, each with the nodes of the records of
   that name and version only. *)
C8_ListPerNameAndVersion ==
    \A p \in cfg.tasks :
        (pc[p] = "done" /\ call[p].op = "list_service" /\ res[p].kind = "ok") =>
            LET kvs == StoreGetPrefix(PREFIX)
                r   == res[p].val
            IN  /\ Len(r) = Cardinality({<<s.name, s.version>> : s \in Decoded(kvs)})
                /\ \A i \in DOMAIN r :
                      r[i].nodes = NodesOf(kvs, {s \in Decoded(kvs) :
                                        s.name = r[i].name /\ s.version = r[i].version})

(* C9: get_service(name) returns, for each distinct version among the
   decodable records under the service path, exactly one Service, whose
   nodes are the nodes of all the records of that version, concatenated in
   scan order: no node is lost or duplicated. *)
C9_GetServicePerVersion ==
    \A p \in cfg.tasks :
        (pc[p] = "done" /\ call[p].op = "get_service" /\ res[p].kind = "ok") =>
            LET kvs == StoreGetPrefix(service_path(call[p].name) \o <<"/">>)
                r   == res[p].val
                vs  == {s.version : s \in Decoded(kvs)}
            IN  /\ Len(r) = Cardinality(vs)
                /\ {r[i].version : i \in DOMAIN r} = vs
                /\ \A i \in DOMAIN r :
                      r[i].nodes = NodesOf(kvs, {s \in Decoded(kvs) :
                                                    s.version = r[i].version})

C9_Witness ==
    \E p \in cfg.tasks :
        /\ pc[p] = "done"
        /\ call[p].op = "get_service"
        /\ res[p].kind = "ok"
        /\ Len(res[p].val) = 2
        /\ \E i \in DOMAIN res[p].val : res[p].val[i].nodes = <<N1, N2>>
        /\ Cardinality(KeysUnder(call[p].name)) = 3

(* A raw event that next() passes over: one without a key-value, or a
   delete without the previous key-value. *)
PassedOver(e) == e.kv = None \/ (e.type = "delete" /\ e.prev_kv = None)

AllPassedOver(rsp) == ~rsp.canceled /\ \A j \in DOMAIN rsp.events : PassedOver(rsp.events[j])

(* C10: the event next() returns was built from the first event of the
   last response that is not passed over; a put gives "create" when the
   key's create_revision equals its mod_revision and "update" otherwise; a
   delete gives "delete" with the Service decoded from the previous value;
   and while every event received so far is a delete without a previous
   value or an event without a key-value, next() is still waiting, unless
   the stream has ended. *)
C10_WatchClassification ==
    \A p \in cfg.tasks :
        call[p].op = "next" =>
            LET seen == loc[p].seen
            IN  /\ pc[p] = "nx_wait" => \A i \in DOMAIN seen : AllPassedOver(seen[i])
                /\ (pc[p] = "done" /\ seen # <<>> /\ res[p] # Err("ended")) =>
                      /\ ~AllPassedOver(seen[Len(seen)])
                      /\ \A i \in 1 .. (Len(seen) - 1) : AllPassedOver(seen[i])
                /\ (pc[p] = "done" /\ res[p].kind = "ok") =>
                      LET r   == res[p].val[1]
                          rsp == seen[Len(seen)]
                          e   == r.from
                      IN  /\ e = rsp.events[r.idx]
                          /\ ~PassedOver(e)
                          /\ \A j \in 1 .. (r.idx - 1) : PassedOver(rsp.events[j])
                          /\ e.type = "put" =>
                                LET kv == TheOne(e.kv)
                                IN  r.action = IF kv.create_revision = kv.mod_revision
                                               THEN "create" ELSE "update"
                          /\ e.type = "delete" =>
                                /\ r.action = "delete"
                                /\ decode(TheOne(e.prev_kv).value) # None
                                      => r.service = TheOne(decode(TheOne(e.prev_kv).value))

C10_Witness ==
    \E p \in cfg.tasks :
        /\ call[p].op = "next"
        /\ pc[p] = "done"
        /\ res[p].kind = "ok"
        /\ res[p].val[1].action = "delete"
        /\ res[p].val[1].service = SA1addr
        /\ Len(loc[p].seen) = 2

(* The value an event's Service is decoded from: the key-value of a put,
   the previous key-value of a delete. *)
EventValue(e) == IF e.type = "put" THEN TheOne(e.kv).value ELSE TheOne(e.prev_kv).value

(* C11: every event next() returns was built from a notification whose
   value decoded, and carries the Service decoded from that value (for a
   delete, from the previous value). *)
C11_ReturnsDecodedEventsOnly ==
    \A p \in cfg.tasks :
        (call[p].op = "next" /\ pc[p] = "done" /\ res[p].kind = "ok") =>
            LET r == res[p].val[1]
            IN  /\ decode(EventValue(r.from)) # None
                /\ r.service = TheOne(decode(EventValue(r.from)))

----------------------------------------------------------------------------
(* register and deregister with and without nodes, by one task.            *)

ValidCfg ==
    [tasks |-> {"t1"}, svcs |-> {SA1, SEmpty}, names |-> {NameA},
     vias |-> {"direct"}, wops |-> {}, record |-> TRUE, calls |-> MaxCalls]

InitValid == InitCommon /\ cfg = ValidCfg

SpecValid == InitValid /\ [][Next]_vars

(* Task p starts a register or a deregister of a service without nodes. *)
StartsWithoutNodes(p) ==
    /\ pc[p] = "done"
    /\ ncalls' = ncalls + 1
    /\ call'[p].op \in {"register", "deregister"}
    /\ call'[p].svc.nodes = <<>>

(* C12: register and deregister of a service with an empty node list
   return the validation error at once: no store request is issued, the
   store is as it was, and the tracker's hash and lease maps are as they
   were. *)
C12_EmptyNodesRejected ==
    [][\A p \in cfg.tasks :
          StartsWithoutNodes(p) =>
              /\ pc'[p] = "done"
              /\ res'[p] = Err("validation")
              /\ loc'[p].reqs = <<>>
              /\ data' = data
              /\ store' = store
              /\ active' = active
              /\ nextLease' = nextLease]_vars

C12_Witness ==
    \E p \in cfg.tasks :
        /\ pc[p] = "done"
        /\ call[p].op = "deregister"
        /\ call[p].svc.nodes = <<>>
        /\ res[p] = Err("validation")
        /\ loc[p].reqs = <<>>
        /\ DOMAIN data.registers # {}
        /\ DOMAIN data.leases # {}
        /\ DOMAIN store # {}

(* Task p has come to the end of a register_node body that found a cached
   lease id for its key and whose keep-alive of that lease failed. *)
RenewalFailed(p) ==
    /\ pc[p] = "rn_ret"
    /\ CurKey(p) \in DOMAIN loc[p].snap.leases
    /\ "keepalive" \in loc[p].failed

(* C13: a register_node whose keep-alive failed goes on to a lease-grant
   and a put, whether or not the node's hash equals the cached hash, and
   returns Ok when the put succeeds; it returns an error only if the put
   failed. *)
C13_RenewalFailureForcesWrite ==
    \A p \in cfg.tasks :
        RenewalFailed(p) =>
            /\ loc[p].reqs = <<"keepalive", "grant", "put">>
            /\ ~loc[p].skipped
            /\ "put" \notin loc[p].failed => (loc[p].ret = "ok" /\ loc[p].committed)
            /\ "put" \in loc[p].failed => loc[p].ret = "err"

C13_Witness ==
    \E p \in cfg.tasks :
        /\ RenewalFailed(p)
        /\ CurKey(p) \in DOMAIN loc[p].snap.registers
        /\ loc[p].snap.registers[CurKey(p)].h = HashNode(CurNode(p))
        /\ loc[p].ret = "ok"
        /\ CurPath(p) \in DOMAIN store
        /\ store[CurPath(p)].lease > loc[p].snap.leases[CurKey(p)]

(* Task p has come to the end of a register_node body whose lease-grant
   failed. *)
GrantFailedIn(p) == pc[p] = "rn_ret" /\ "grant" \in loc[p].failed

(* The end of register_node after a failed lease-grant: the put was issued
   with no lease, and if it succeeded the body returned Ok and the key is
   stored with lease id 0. *)
WrittenWithoutLease ==
    \A p \in cfg.tasks :
        GrantFailedIn(p) =>
            /\ "put" \in Range(loc[p].reqs)
            /\ loc[p].lease_id = 0
            /\ "put" \notin loc[p].failed =>
                  /\ loc[p].ret = "ok"
                  /\ CurPath(p) \in DOMAIN store
                  /\ store[CurPath(p)].lease = 0
                  /\ store[CurPath(p)].value = encode(SingleNode(call[p].svc, CurNode(p)))

(* A key stored without a lease leaves the store only through the delete
   of a deregister of its node. *)
LeaselessKeyLeavesByDeregister ==
    \A k \in DOMAIN store :
        (store[k].lease = 0 /\ k \notin DOMAIN store') =>
            \E p \in cfg.tasks :
                /\ pc[p] = "dr_del"
                /\ call[p].op = "deregister"
                /\ CurPath(p) = k

(* C14: when the lease-grant of register_node fails the put is still
   issued, with no lease (lease id 0), and register_node returns Ok when
   the put succeeds; the key so stored has no lease and is removed only by
   a deregister. *)
C14_GrantFailureDegrades ==
    [][WrittenWithoutLease' /\ LeaselessKeyLeavesByDeregister]_vars

C14_Witness ==
    \E p \in cfg.tasks :
        /\ pc[p] = "done"
        /\ call[p].op = "deregister"
        /\ res[p].kind = "ok"
        /\ prev[p].op = "register"
        /\ prev[p].kind = "ok"
        /\ prev[p].svc = call[p].svc
        /\ nfail = 1
        /\ nextLease = 1
        /\ DOMAIN store = {}

(* Task p is inside a register call. *)
Registering(p) == call[p].op = "register" /\ pc[p] # "done"

(* One step of a register call: the loop moves to the next node only by
   one, and only after register_node returned Ok for the current node; an
   error of register_node is returned at once, with the store and the
   tracker left as they are; and what the call changes in the store is the
   key of the current node. *)
RegisterStepInOrder ==
    \A p \in cfg.tasks :
        Registering(p) =>
            /\ call'[p].idx # call[p].idx =>
                  /\ call'[p].idx = call[p].idx + 1
                  /\ pc[p] = "rn_ret"
                  /\ loc[p].ret = "ok"
            /\ (pc[p] = "rn_ret" /\ loc[p].ret = "err" /\ pc'[p] # pc[p]) =>
                  /\ pc'[p] = "done"
                  /\ res'[p].kind = "err"
                  /\ call'[p] = call[p]
                  /\ store' = store
                  /\ data' = data
            /\ (store' # store /\ active' = active) =>
                  \A k \in DOMAIN store \cup DOMAIN store' :
                      MapGet(store', k) # MapGet(store, k) => k = CurPath(p)

(* No rollback: a step of a register call removes neither the tracker
   entries nor the store key of a node that comes before the current one
   in the list. *)
EarlierNodesKept ==
    \A p \in cfg.tasks :
        Registering(p) =>
            \A i \in 1 .. (call[p].idx - 1) :
                LET key  == TrackerKey(call[p].svc.name, call[p].svc.nodes[i].id)
                    path == node_path(call[p].svc.name, call[p].svc.nodes[i].id)
                IN  /\ key \in DOMAIN data.registers =>
                          MapGet(data'.registers, key) = MapGet(data.registers, key)
                    /\ key \in DOMAIN data.leases =>
                          MapGet(data'.leases, key) = MapGet(data.leases, key)
                    /\ (path \in DOMAIN store /\ active' = active) =>
                          MapGet(store', path) = MapGet(store, path)

(* A register that returned an error at node k: the nodes before k are, unless
   a lease has expired, in the store. *)
EarlierNodesStay ==
    \A p \in cfg.tasks :
        (pc[p] = "done" /\ call[p].op = "register" /\ res[p] = Err("infrastructure")) =>
            \A i \in 1 .. (call[p].idx - 1) :
                NoLeaseExpired =>
                    node_path(call[p].svc.name, call[p].svc.nodes[i].id) \in DOMAIN store

(* C15: register registers the nodes in list order, one at a time; when
   the registration of node k fails register returns that error at once,
   no request is made for a node after k, and the nodes before k stay in
   the store and in the tracker. *)
C15_RegisterFailsFast ==
    [][RegisterStepInOrder /\ EarlierNodesKept /\ EarlierNodesStay']_vars

C15_Witness ==
    \E p \in cfg.tasks :
        /\ pc[p] = "done"
        /\ call[p].op = "register"
        /\ res[p] = Err("infrastructure")
        /\ call[p].idx = 2
        /\ ncalls = 1
        /\ DOMAIN store = {node_path(NameA, N1.id)}
        /\ DOMAIN data.registers = {TrackerKey(NameA, N1.id)}


(* The value v stored under key k is the encoding of a service with
   exactly one node, the node whose path is k. *)
SingleNodeRecordOf(k, v) ==
    LET d == decode(v)
    IN  /\ d # None
        /\ Len(TheOne(d).nodes) = 1
        /\ node_path(TheOne(d).name, TheOne(d).nodes[1].id) = k

(* C16: every value a step writes to the store, under a new key or over
   an old value, is the encoding of a service with exactly one node, the
   node whose path is the key written, however many nodes the service
   passed to register has. *)
C16_PutsSingleNodeRecord ==
    [][\A k \in DOMAIN store' :
           (k \notin DOMAIN store \/ store'[k] # store[k]) =>
               SingleNodeRecordOf(k, store'[k].value)]_vars

C16_Witness ==
    \E p \in cfg.tasks :
        /\ pc[p] = "done"
        /\ call[p].op = "register"
        /\ call[p].svc = SA12
        /\ res[p].kind = "ok"
        /\ DOMAIN store = {node_path(NameA, N1.id), node_path(NameA, N2.id)}
        /\ store[node_path(NameA, N1.id)].value = encode(SingleNode(SA12, N1))
        /\ store[node_path(NameA, N2.id)].value = encode(SingleNode(SA12, N2))


(* A next() call has been handed the response that reports cancellation:
   the store has put it on the stream and it is no longer there. *)
CancelReported ==
    /\ \E i \in DOMAIN wdelivered : wdelivered[i].canceled
    /\ \A i \in DOMAIN stream : ~stream[i].canceled

(* The next() call that reads a response reporting cancellation returns
   the "canceled" error. *)
CancelFailsNext ==
    \A p \in cfg.tasks :
        (pc[p] = "nx_wait" /\ stream # <<>> /\ Head(stream).canceled /\ stream' # stream) =>
            /\ pc'[p] = "done"
            /\ res'[p] = Err("canceled")

(* Once cancellation has been reported the subscription is not opened
   again, nothing more arrives on the stream, no next() returns an event,
   and a next() call that returns returns an error. *)
CancelIsTerminal ==
    CancelReported =>
        /\ wstate \in {"canceled", "closed"}
        /\ wstate' \in {"canceled", "closed"}
        /\ stream = <<>>
        /\ stream' = <<>>
        /\ wdelivered' = wdelivered
        /\ wevents' = wevents
        /\ \A p \in cfg.tasks :
              (call'[p].op = "next" /\ pc[p] # "done" /\ pc'[p] = "done") =>
                  /\ res'[p] = Err("ended")
                  /\ wstate = "closed"

(* C17: when the stream reports cancellation next() fails with the
   "canceled" error; after that the Watcher does not subscribe again and
   no next() call returns an event: a later call returns an error once
   the stream has ended, and until then it waits. *)
C17_CancellationIsTerminal ==
    [][CancelFailsNext /\ CancelIsTerminal]_vars

C17_Witness ==
    \E p, q \in cfg.tasks :
        /\ p # q
        /\ CancelReported
        /\ call[q].op = "next" /\ pc[q] = "done" /\ res[q] = Err("canceled")
        /\ call[p].op = "next" /\ pc[p] = "done" /\ res[p] = Err("ended")

(* C17 as stated: every next() call made after cancellation was reported
   fails, whatever the stream does. *)
C17_LaterNextFails ==
    \A p \in WatchCfg.tasks :
        (CancelReported /\ call[p].op = "next" /\ pc[p] = "nx_wait")
            ~> (pc[p] = "done" /\ res[p].kind = "err")


(* C18: get_service whose scan succeeded fails with "not found" exactly
   when the scan returned no entry; when it returned entries the call
   succeeds, the entries whose value is not a Service being skipped, and
   returns the empty list when none of them is a Service. *)
C18_NotFoundOnlyWhenEmpty ==
    \A p \in cfg.tasks :
        (pc[p] = "done" /\ call[p].op = "get_service" /\ loc[p].ret # "err") =>
            LET kvs == StoreGetPrefix(service_path(call[p].name) \o <<"/">>)
            IN  /\ res[p] = Err("notfound") <=> kvs = <<>>
                /\ kvs # <<>> => res[p].kind = "ok"
                /\ (kvs # <<>> /\ Decoded(kvs) = {}) => res[p] = Ok(<<>>)


(* C19: list_service whose scan succeeded on a namespace that holds no
   entry returns Ok with the empty list. *)
C19_EmptyNamespaceListsNothing ==
    \A p \in cfg.tasks :
        (pc[p] = "done" /\ call[p].op = "list_service" /\ loc[p].ret # "err"
            /\ StoreGetPrefix(PREFIX) = <<>>) =>
                res[p] = Ok(<<>>)

C19_Witness ==
    \E p \in cfg.tasks :
        /\ pc[p] = "done"
        /\ call[p].op = "list_service"
        /\ loc[p].reqs = <<"get">>
        /\ loc[p].ret # "err"
        /\ DOMAIN store = {}
        /\ res[p] = Ok(<<>>)


(* C20: the Services list_service returns are in ascending order of their
   version, and the store contents determine the sequence returned: there
   is one sequence a call on a given store can return. *)
C20_ListSortedByVersion ==
    /\ Cardinality(ListServiceOutcomes) = 1
    /\ \A p \in cfg.tasks :
          (pc[p] = "done" /\ call[p].op = "list_service" /\ res[p].kind = "ok") =>
              LET r == res[p].val
              IN  /\ Ok(r) \in ListServiceOutcomes
                  /\ \A i, j \in DOMAIN r : i < j => StrLess(r[i].version, r[j].version)

C20_Witness ==
    \E p \in cfg.tasks :
        /\ pc[p] = "done"
        /\ call[p].op = "list_service"
        /\ res[p].kind = "ok"
        /\ Len(res[p].val) = 2
        /\ res[p].val[1].version = V1
        /\ res[p].val[2].version = V2
        /\ DOMAIN store = {PathA1, PathA2}
        /\ store[PathA1].value = encode(Service(NameA, V2, {}, <<N1>>))
        /\ store[PathA2].value = encode(SA2)


----------------------------------------------------------------------------
(* The helpers of etcd/etcd.rs and the construction of a registry, applied  *)
(* to arguments drawn from small sets.                                     *)

(* etcd/etcd.rs line 25: `static PREFIX: &str = r"/vine/registry/"`. *)
etcd_PREFIX == <<"/", "v", "i", "n", "e", "/", "r", "e", "g", "i", "s", "t", "r", "y", "/">>

(* etcd/etcd.rs lines 227-231:
   PREFIX.to_string() + "/" + s.replace("/", "-") + "/" + id.replace("/", "-"). *)
etcd_node_path(s, id) == etcd_PREFIX \o <<"/">> \o sanitize(s) \o <<"/">> \o sanitize(id)

(* options.rs lines 9-17: Options::new(); of the fields only the timeout
   is kept. *)
OptionsNew == [timeout |-> 15]

(* etcd/lib.rs lines 35-37: `if opts.timeout == 0 { opts.timeout = 5; }`. *)
TimeoutDefaulted(opts) == [opts EXCEPT !.timeout = IF @ = 0 THEN 5 ELSE @]

(* etcd/lib.rs lines 30-37: the options EtcdRegistry::new keeps. *)
EffectiveOptions(opt) ==
    TimeoutDefaulted(IF opt = None THEN OptionsNew ELSE TheOne(opt))

(* A call of a helper: `arg` is its argument. *)
PureCall(op, arg) ==
    [op |-> op, svc |-> ServiceNew, name |-> <<>>, via |-> "direct", idx |-> 1, arg |-> arg]

PathNames == {<<>>, <<"a">>, <<"/">>, <<"a", "/", "b">>, <<"a", "-", "b">>, <<"/", "a", "/">>}

PathIds == {<<>>, <<"1">>, <<"/", "1">>, <<"1", "/", "2">>, <<"1", "-", "2">>}

Timeouts == {0, 1, 5, 15}

PureCalls ==
    {PureCall("node_path", <<n, i>>) : n \in PathNames, i \in PathIds}
    \cup {PureCall("keys", <<n, i>>) : n \in PathNames, i \in PathIds}
    \cup {PureCall("watch", o) : o \in Opt({[service |-> n] : n \in PathNames})}
    \cup {PureCall("new", o) : o \in Opt({[timeout |-> t] : t \in Timeouts})}

PureCfg ==
    [tasks |-> {"t1"}, svcs |-> {}, names |-> {}, vias |-> {"direct"},
     wops |-> {}, record |-> FALSE, calls |-> MaxCalls - 1]

InitPure == InitCommon /\ cfg = PureCfg

StartPure(p, c) ==
    /\ pc[p] = "done"
    /\ ncalls < cfg.calls
    /\ ncalls' = ncalls + 1
    /\ call' = [call EXCEPT ![p] = c]
    /\ loc' = [loc EXCEPT ![p] = LocInit]
    /\ pc' = [pc EXCEPT ![p] = c.op]
    /\ res' = [res EXCEPT ![p] = NoRes]
    /\ UNCHANGED <<store, active, nextLease, data, lock, glock, nfail, cfg, elocks, cell, prev>>
    /\ UNCHANGED watchVars

(* etcd/etcd.rs lines 227-231. *)
NodePath(p) ==
    /\ pc[p] = "node_path"
    /\ Return(p, Ok(<<etcd_node_path(call[p].arg[1], call[p].arg[2])>>))
    /\ UNCHANGED <<store, active, nextLease, data, lock, call, loc, ncalls, nfail, cfg, elocks, cell, prev>>
    /\ UNCHANGED watchVars

(* etcd/lib.rs lines 29-48: EtcdRegistry::new; Client::connect may fail. *)
New(p) ==
    /\ pc[p] = "new"
    /\ \/ /\ MayFail
          /\ Failed
          /\ Return(p, Err("infrastructure"))
       \/ /\ UNCHANGED nfail
          /\ Return(p, Ok(<<EffectiveOptions(call[p].arg)>>))
    /\ UNCHANGED <<store, active, nextLease, data, lock, call, loc, ncalls, cfg, elocks, cell, prev>>
    /\ UNCHANGED watchVars

(* etcd/lib.rs: the key of the read (line 96), of the put (line 171) and
   of deregister's delete (line 239). *)
LibKeys(s, id) ==
    [read |-> node_path(s, id), put |-> node_path(s, id), delete |-> node_path(s, id)]

(* etcd/etcd.rs: the key of the read (line 67) and of the put (line 148),
   `format!("{}{}", svc.name, node.id)`; its deregister is `todo!()`. *)
EtcdKeys(s, id) == [read |-> etcd_node_path(s, id), put |-> s \o id]

(* The store keys the two register_node implementations use for the node
   id of the service s. *)
Keys(p) ==
    /\ pc[p] = "keys"
    /\ Return(p, Ok(<<LibKeys(call[p].arg[1], call[p].arg[2]),
                      EtcdKeys(call[p].arg[1], call[p].arg[2])>>))
    /\ UNCHANGED <<store, active, nextLease, data, lock, call, loc, ncalls, nfail, cfg, elocks, cell, prev>>
    /\ UNCHANGED watchVars

(* The service's path as the subscription prefix, without the "/". *)
watch_path_no_slash(opt) ==
    IF opt # None /\ TheOne(opt).service # <<>>
    THEN service_path(TheOne(opt).service)
    ELSE PREFIX

(* etcd/watch.rs lines 94-100: PREFIX, or the service's path and "/" when
   the options name a service. *)
watch_path(opt) ==
    IF opt # None /\ TheOne(opt).service # <<>>
    THEN service_path(TheOne(opt).service) \o <<"/">>
    ELSE PREFIX

(* etcd/watch.rs lines 88-108: EtcdWatcher::new subscribes, with_prefix, to
   watch_path; the subscription request may fail. *)
WatcherNew(p) ==
    /\ pc[p] = "watch"
    /\ \/ /\ MayFail
          /\ Failed
          /\ Return(p, Err("infrastructure"))
       \/ /\ UNCHANGED nfail
          /\ Return(p, Ok(<<watch_path(call[p].arg)>>))
    /\ UNCHANGED <<store, active, nextLease, data, lock, call, loc, ncalls, cfg, elocks, cell, prev>>
    /\ UNCHANGED watchVars

NextPure ==
    \/ \E p \in cfg.tasks : \E c \in PureCalls : StartPure(p, c)
    \/ \E p \in cfg.tasks : NodePath(p)
    \/ \E p \in cfg.tasks : Keys(p)
    \/ \E p \in cfg.tasks : WatcherNew(p)
    \/ \E p \in cfg.tasks : New(p)

SpecPure == InitPure /\ [][NextPure]_vars

(* C21: the store path of a node is "/vine/registry" + "/" + sanitize(name)
   + "/" + sanitize(id): the three parts are separated by single
   slashes. *)
C21_NodePathLayout ==
    \A p \in cfg.tasks :
        (pc[p] = "done" /\ call[p].op = "node_path") =>
            res[p].val[1] = PREFIX \o <<"/">> \o sanitize(call[p].arg[1])
                                   \o <<"/">> \o sanitize(call[p].arg[2])


(* C22: a registry constructed with no options, or with options whose
   timeout is zero, keeps a timeout of 5 seconds. *)
C22_DefaultTimeout ==
    \A p \in cfg.tasks :
        (pc[p] = "done" /\ call[p].op = "new" /\ res[p].kind = "ok"
            /\ (call[p].arg = None \/ TheOne(call[p].arg).timeout = 0)) =>
                res[p].val[1].timeout = 5


(* The response of the single-key read holds a record that register_node
   adopts: it has a lease and decodes to a Service with at least one
   node. *)
Adoptable(kvs) ==
    /\ kvs # <<>>
    /\ kvs[1].lease > 0
    /\ decode(kvs[1].value) # None
    /\ TheOne(decode(kvs[1].value)).nodes # <<>>

(* Task p is at the end of a register_node body that returned Ok, found
   no cached lease for its key and read an adoptable record. *)
AdoptedAndReturned(p) ==
    /\ pc[p] = "rn_ret"
    /\ loc[p].ret = "ok"
    /\ CurKey(p) \notin DOMAIN loc[p].snap.leases
    /\ Adoptable(loc[p].seen)

(* C23: when register_node found no cached lease and the store held the
   key with a lease and a decodable record with a node, then once it has
   returned Ok the tracker holds a lease id and a hash for the key,
   whether the write was skipped or made. *)
C23_AdoptionReachesTracker ==
    \A p \in cfg.tasks :
        AdoptedAndReturned(p) =>
            /\ CurKey(p) \in DOMAIN data.leases
            /\ CurKey(p) \in DOMAIN data.registers


(* Task p is at the end of a register_node body that started from an
   empty tracker and whose read of the key was answered with a record. *)
FreshClientRead(p) ==
    /\ pc[p] = "rn_ret"
    /\ loc[p].snap = [registers |-> EmptyMap, leases |-> EmptyMap]
    /\ "get" \notin loc[p].failed
    /\ loc[p].seen # <<>>

(* The record read is adoptable and its node is the node being
   registered. *)
SameNodeStored(p) ==
    /\ Adoptable(loc[p].seen)
    /\ TheOne(decode(loc[p].seen[1].value)).nodes[1] = CurNode(p)

(* The record read has no lease, or decodes to a node other than the one
   being registered. *)
StaleRecordStored(p) ==
    \/ loc[p].seen[1].lease = 0
    \/ /\ Adoptable(loc[p].seen)
       /\ TheOne(decode(loc[p].seen[1].value)).nodes[1] # CurNode(p)

(* C24: a client with an empty tracker that registers a node whose record
   is in the store with a lease and the same node content sends no
   lease-grant and no put and returns Ok; when the stored record has no
   lease or its node content differs, the client writes. *)
C24_FreshClientSkipsOrWrites ==
    \A p \in cfg.tasks :
        FreshClientRead(p) =>
            /\ SameNodeStored(p) => (loc[p].reqs = <<"get">> /\ loc[p].ret = "ok")
            /\ StaleRecordStored(p) => "put" \in Range(loc[p].reqs)


----------------------------------------------------------------------------
(* deregister, node by node.                                                *)

Deregistering(p) == call[p].op = "deregister" /\ pc[p] \in {"dr_lock", "dr_rm", "dr_del"}

InTracker(d, key) == key \in DOMAIN d.registers \cup DOMAIN d.leases

(* One step of a deregister call at node k: the index moves by one, and
   only after the delete of node k went through; the tracker changes only
   by losing both entries of node k; a delete is sent only once the
   tracker has lost them; the store changes (lease expiry aside) only by
   losing the key of node k; a failed delete ends the call with the error
   and changes neither the tracker nor the store. *)
DeregisterStepInOrder ==
    \A p \in cfg.tasks :
        Deregistering(p) =>
            /\ call'[p].idx # call[p].idx =>
                  /\ call'[p].idx = call[p].idx + 1
                  /\ pc[p] = "dr_del"
                  /\ CurPath(p) \notin DOMAIN store'
            /\ data' # data =>
                  /\ pc[p] = "dr_rm"
                  /\ ~InTracker(data', CurKey(p))
                  /\ \A k \in (DOMAIN data.registers \cup DOMAIN data.leases) \ {CurKey(p)} :
                        /\ MapGet(data'.registers, k) = MapGet(data.registers, k)
                        /\ MapGet(data'.leases, k) = MapGet(data.leases, k)
            /\ loc'[p].reqs # loc[p].reqs =>
                  /\ loc'[p].reqs = Append(loc[p].reqs, "delete")
                  /\ ~InTracker(data, CurKey(p))
                  /\ data' = data
            /\ (store' # store /\ active' = active) =>
                  /\ pc[p] = "dr_del"
                  /\ store' = MapRemove(store, CurPath(p))
            /\ (pc'[p] = "done" /\ res'[p].kind = "err") =>
                  /\ pc[p] = "dr_del"
                  /\ call'[p] = call[p]
                  /\ store' = store
                  /\ data' = data
                  /\ ~InTracker(data', CurKey(p))

(* The deletes sent so far are those of the nodes before the current one,
   and the delete of the current one once the call has ended. *)
DeregisterProgress ==
    \A p \in cfg.tasks :
        /\ Deregistering(p) => Len(loc[p].reqs) = call[p].idx - 1
        /\ (pc[p] = "done" /\ call[p].op = "deregister" /\ res[p].kind # "err"
                /\ call[p].svc.nodes # <<>>) =>
              /\ call[p].idx = Len(call[p].svc.nodes)
              /\ Len(loc[p].reqs) = call[p].idx
        /\ (pc[p] = "done" /\ call[p].op = "deregister"
                /\ res[p] = Err("infrastructure")) =>
              Len(loc[p].reqs) = call[p].idx

(* C25: deregister takes the nodes in list order; for each node it removes
   the key's lease and hash entries from the tracker before it sends the
   store delete; when a delete fails deregister returns that error at once,
   the failed node's tracker entries stay removed, and the nodes after it
   are neither removed from the tracker nor deleted from the store. *)
C25_DeregisterFailsFast ==
    [][DeregisterStepInOrder /\ DeregisterProgress']_vars

C25_Witness ==
    \E p \in cfg.tasks :
        /\ pc[p] = "done"
        /\ call[p] = Call("deregister", SA12, <<>>, "direct")
        /\ res[p] = Err("infrastructure")
        /\ call[p].idx = 1
        /\ loc[p].reqs = <<"delete">>
        /\ DOMAIN store = {node_path(NameA, N1.id), node_path(NameA, N2.id)}
        /\ DOMAIN data.registers = {TrackerKey(NameA, N2.id)}
        /\ DOMAIN data.leases = {TrackerKey(NameA, N2.id)}

----------------------------------------------------------------------------
(* register with options: one task, one key, registers with and without a  *)
(* TTL.                                                                    *)

RegisterTtls == {5, 15, 30}

RegisterCall(s, opt) ==
    [op |-> "register", svc |-> s, name |-> <<>>, via |-> "direct", idx |-> 1, opt |-> opt]

TtlCalls == {RegisterCall(s, o) : s \in {SA1, SA1addr, SA1v2}, o \in Opt({[ttl |-> t] : t \in RegisterTtls})}

TtlCfg ==
    [tasks |-> {"t1"},
     svcs  |-> {SA1, SA1addr, SA1v2},
     names |-> {},
     vias  |-> {"direct"},
     wops  |-> {},
     record |-> FALSE,
     calls |-> MaxCalls - 1]

InitTtl == InitCommon /\ cfg = TtlCfg

NextTtl ==
    \/ \E p \in cfg.tasks : \E c \in TtlCalls : StartCall(p, c)
    \/ \E p \in cfg.tasks : RnLock(p)
    \/ \E p \in cfg.tasks : RnSnapshot(p)
    \/ \E p \in cfg.tasks : RnGet(p)
    \/ \E p \in cfg.tasks : RnKeepAlive(p)
    \/ \E p \in cfg.tasks : RnGrant(p)
    \/ \E p \in cfg.tasks : RnPut(p)
    \/ \E p \in cfg.tasks : RnCommitLock(p)
    \/ \E p \in cfg.tasks : RnCommit(p)
    \/ \E p \in cfg.tasks : RegisterLoop(p)
    \/ \E l \in active : Expire(l)

SpecTtl == InitTtl /\ [][NextTtl]_vars

(* How many of the requests in reqs are r. *)
RECURSIVE Count(_, _)
Count(reqs, r) ==
    IF reqs = <<>> THEN 0
    ELSE (IF Head(reqs) = r THEN 1 ELSE 0) + Count(Tail(reqs), r)

(* The body of register_node went past the skip test, to the lease-grant. *)
OnWritePath(p) == call[p].op = "register" /\ "grant" \in Range(loc[p].reqs)

(* The TTL the caller of register asked for. *)
AskedTtl(c) == IF c.opt = None THEN 15 ELSE TheOne(c.opt).ttl

(* The grant: one per body, with the TTL asked for; the lease the store
   hands out is the body's lease_id. *)
OneGrantWithTtl ==
    \A p \in cfg.tasks :
        OnWritePath(p) =>
            /\ Count(loc[p].reqs, "grant") = 1
            /\ loc[p].ttl = AskedTtl(call[p])
            /\ "grant" \notin loc[p].failed =>
                  /\ loc[p].lease_id > 0
                  /\ loc[p].lease_id = nextLease - 1

(* The put: at most one per body and only after the grant; a body that
   reached the grant has sent its put by the time it ends. *)
OnePut ==
    \A p \in cfg.tasks :
        call[p].op = "register" =>
            /\ Count(loc[p].reqs, "put") <= 1
            /\ "put" \in Range(loc[p].reqs) => OnWritePath(p)
            /\ (OnWritePath(p) /\ pc[p] \in {"rn_clock", "rn_commit", "rn_ret", "done"}) =>
                  Count(loc[p].reqs, "put") = 1

(* After a put that succeeded the local maps, and after the commit the
   tracker, hold the new node's hash and, when a lease was granted, the
   granted lease under the key. *)
CacheUpdated ==
    \A p \in cfg.tasks :
        (call[p].op = "register" /\ "put" \in Range(loc[p].reqs) /\ loc[p].ret # "err"
             /\ pc[p] # "rn_put") =>
            LET key == CurKey(p)
                m   == IF loc[p].committed THEN data
                       ELSE [registers |-> loc[p].registers, leases |-> loc[p].leases]
            IN  /\ MapGet(m.registers, key) # None
                /\ TheOne(MapGet(m.registers, key)).h = HashNode(CurNode(p))
                /\ "grant" \notin loc[p].failed =>
                       MapGet(m.leases, key) = Some(loc[p].lease_id)

(* The step that writes the store (lease expiry aside) writes the node's
   path, with the body's lease_id attached. *)
PutCarriesLease ==
    \A p \in cfg.tasks :
        (call[p].op = "register" /\ store' # store /\ active' = active) =>
            /\ pc[p] = "rn_put"
            /\ DOMAIN store' = DOMAIN store \cup {CurPath(p)}
            /\ store'[CurPath(p)].lease = loc[p].lease_id
            /\ \A k \in DOMAIN store \ {CurPath(p)} : store'[k] = store[k]

(* C26: on its write path register_node requests exactly one lease, with
   the TTL of the options (15 when none is given), sends exactly one put,
   to the node's path and with the granted lease attached, and after a
   successful put the cached hash of the key is the new node's hash and
   the cached lease of the key is the granted lease. *)
C26_WritePath ==
    [][OneGrantWithTtl' /\ OnePut' /\ CacheUpdated' /\ PutCarriesLease]_vars

C26_Witness ==
    \E p \in cfg.tasks :
        /\ pc[p] = "done"
        /\ call[p] = RegisterCall(SA1addr, Some([ttl |-> 5]))
        /\ res[p] = Ok(<<>>)
        /\ ncalls = 2
        /\ loc[p].reqs = <<"keepalive", "grant", "put">>
        /\ loc[p].ttl = 5
        /\ loc[p].lease_id = 2
        /\ store[PathA1].lease = 2
        /\ MapGet(data.leases, TrackerKey(NameA, N1.id)) = Some(2)
        /\ TheOne(MapGet(data.registers, TrackerKey(NameA, N1.id))).h = HashNode(N1addr)

(* C27: for a given service and node, the key register_node reads, the key
   it puts and the key deregister deletes are one and the same path, in
   both register_node implementations (etcd/lib.rs and etcd/etcd.rs). *)
C27_OneKeyPerNode ==
    \A p \in cfg.tasks :
        (pc[p] = "done" /\ call[p].op = "keys" /\ res[p].kind = "ok") =>
            /\ res[p].val[1].read = res[p].val[1].put
            /\ res[p].val[1].put = res[p].val[1].delete
            /\ res[p].val[2].read = res[p].val[2].put

(* The subscription of a Watcher, made with_prefix, sends the events of
   the keys that start with its path. *)
Subscribed(path, key) == IsPrefix(path, key)

(* The store keys of the nodes of the service named n. *)
KeysOfService(n) == {node_path(n, i) : i \in PathIds}

(* C28: a Watcher made with a non-empty opts.service subscribes to
   service_path(service) + "/": of the node keys it is sent exactly those
   of that service, and none of a service whose name only starts with that
   name; a Watcher made with no options or with an empty service
   subscribes to PREFIX, the whole namespace. *)
C28_WatchScope ==
    \A p \in cfg.tasks :
        (pc[p] = "done" /\ call[p].op = "watch" /\ res[p].kind = "ok") =>
            LET opt  == call[p].arg
                path == res[p].val[1]
            IN  IF opt # None /\ TheOne(opt).service # <<>>
                THEN /\ path = service_path(TheOne(opt).service) \o <<"/">>
                     /\ \A n \in PathNames : \A i \in PathIds :
                           Subscribed(path, node_path(n, i)) <=>
                               node_path(n, i) \in KeysOfService(TheOne(opt).service)
                ELSE /\ path = PREFIX
                     /\ \A n \in PathNames : \A i \in PathIds :
                           Subscribed(path, node_path(n, i))

C28_Witness ==
    \E p \in cfg.tasks :
        /\ pc[p] = "done"
        /\ call[p] = PureCall("watch", Some([service |-> <<"a">>]))
        /\ res[p].kind = "ok"
        /\ Subscribed(res[p].val[1], node_path(<<"a">>, <<"1">>))
        /\ IsPrefix(<<"a">>, <<"a", "-", "b">>)
        /\ ~Subscribed(res[p].val[1], node_path(<<"a", "-", "b">>, <<"1">>))

----------------------------------------------------------------------------
(* The process-wide default registry (lib.rs 19-36): two tasks call         *)
(* global_registry() and set_global_registry(reg).                         *)

Registries == {"r1", "r2"}

CellCalls ==
    {PureCall("global_registry", "")}
    \cup {PureCall("set_global_registry", r) : r \in Registries}

CellCfg ==
    [tasks |-> {"t1", "t2"}, svcs |-> {}, names |-> {}, vias |-> {"direct"},
     wops |-> {}, record |-> TRUE, calls |-> MaxCalls]

InitCell == InitCommon /\ cfg = CellCfg

StartCell(p, c) ==
    /\ pc[p] = "done"
    /\ ncalls < cfg.calls
    /\ ncalls' = ncalls + 1
    /\ prev' = [prev EXCEPT ![p] = Done(call[p], res[p])]
    /\ call' = [call EXCEPT ![p] = c]
    /\ loc' = [loc EXCEPT ![p] = LocInit]
    /\ pc' = [pc EXCEPT ![p] = c.op]
    /\ res' = [res EXCEPT ![p] = NoRes]
    /\ UNCHANGED <<store, active, nextLease, data, lock, glock, nfail, cfg, elocks, cell>>
    /\ UNCHANGED watchVars

(* lib.rs 26-29: global_registry().  init_registry (lines 19-22) runs only
   when the cell is empty; its `unwrap()` panics when the connection fails
   and the cell stays empty. *)
GlobalRegistry(p) ==
    /\ pc[p] = "global_registry"
    /\ \/ /\ cell = "empty"
          /\ MayFail
          /\ Failed
          /\ Return(p, Err("panic"))
          /\ UNCHANGED cell
       \/ /\ UNCHANGED nfail
          /\ cell' = get_or_init(cell)
          /\ Return(p, Ok(<<cell'>>))
    /\ UNCHANGED <<store, active, nextLease, data, lock, call, loc, ncalls, cfg, elocks, prev>>
    /\ UNCHANGED watchVars

(* lib.rs 31-36: `DEFAULT_REGISTRY.set(..)` fills the cell only when it is
   empty; otherwise it returns an error and the cell keeps what it holds. *)
SetGlobalRegistry(p) ==
    /\ pc[p] = "set_global_registry"
    /\ IF cell = "empty"
       THEN /\ cell' = call[p].arg
            /\ Return(p, Ok(<<>>))
       ELSE /\ UNCHANGED cell
            /\ Return(p, Err("set global logger failed"))
    /\ UNCHANGED <<store, active, nextLease, data, lock, call, loc, ncalls, nfail, cfg, elocks, prev>>
    /\ UNCHANGED watchVars

NextCell ==
    \/ \E p \in cfg.tasks : \E c \in CellCalls : StartCell(p, c)
    \/ \E p \in cfg.tasks : GlobalRegistry(p)
    \/ \E p \in cfg.tasks : SetGlobalRegistry(p)

SpecCell == InitCell /\ [][NextCell]_vars

(* C29: the default registry is constructed on the first global_registry()
   call and not before; set_global_registry(reg) succeeds, and makes reg
   the registry that global_registry() returns from then on, whether the
   cell was empty, held the default registry or held a registry set
   before. *)
SetReturns(p) == pc[p] = "set_global_registry" /\ pc'[p] = "done"

GlobalRegistryReturns(p) ==
    pc[p] = "global_registry" /\ pc'[p] = "done" /\ res'[p].kind = "ok"

C29_SetReplacesDefault ==
    [][\A p \in cfg.tasks :
          /\ SetReturns(p) => (res'[p] = Ok(<<>>) /\ cell' = call[p].arg)
          /\ GlobalRegistryReturns(p) =>
                (res'[p].val = <<cell'>> /\ cell' = get_or_init(cell))
          /\ (cell = "empty" /\ cell' = "default") =>
                \E q \in cfg.tasks : GlobalRegistryReturns(q)]_vars

----------------------------------------------------------------------------
(* Two register calls on one client.                                        *)

RegisteredOk(p) ==
    /\ pc[p] = "done"
    /\ call[p].op = "register"
    /\ res[p] = Ok(<<>>)
    /\ loc[p].committed

(* C30: when the only two calls made on a client are two register calls
   for distinct keys, one by each task, and both have returned success,
   the tracker holds the hash entry of both keys: neither commit erased
   the entry the other one committed. *)
C30_BothCommitsKept ==
    \A p, q \in cfg.tasks :
        (p # q /\ ncalls = 2 /\ RegisteredOk(p) /\ RegisteredOk(q)
             /\ CurKey(p) # CurKey(q)) =>
            {CurKey(p), CurKey(q)} \subseteq DOMAIN data.registers

----------------------------------------------------------------------------
(* Two tasks on one client, three calls, with the call before the current   *)
(* one recorded.                                                           *)

RaceCfg ==
    [tasks |-> {"t1", "t2"},
     svcs  |-> {SA1, SA2},
     names |-> {NameA},
     vias  |-> {"direct"},
     wops  |-> {},
     record |-> TRUE,
     calls |-> MaxCalls]

InitRace == InitCommon /\ cfg = RaceCfg

SpecRace == InitRace /\ [][Next]_vars

(* The tracker keys of the nodes of the service s. *)
KeysOf(s) == {TrackerKey(s.name, s.nodes[i].id) : i \in DOMAIN s.nodes}

(* Task p registered s and then deregistered it, both with success; the
   only other call made is a register of other keys by task q. *)
DeregisteredBeside(p, q) ==
    /\ p # q
    /\ pc[p] = "done"
    /\ call[p].op = "deregister"
    /\ res[p] = Ok(<<>>)
    /\ prev[p].op = "register"
    /\ prev[p].svc = call[p].svc
    /\ call[q].op = "register"
    /\ prev[q].op = "none"
    /\ KeysOf(call[q].svc) \cap KeysOf(call[p].svc) = {}

(* C31: once deregister(s) has returned, and as long as no register of a
   node of s has started since, the tracker holds no lease and no hash
   entry of a node of s, whatever a register_node of another key does
   meanwhile. *)
C31_DeregisteredStaysOut ==
    \A p, q \in cfg.tasks :
        DeregisteredBeside(p, q) =>
            KeysOf(call[p].svc) \cap (DOMAIN data.registers \cup DOMAIN data.leases) = {}

(* The store paths of the nodes of the service s. *)
PathsOf(s) == {node_path(s.name, s.nodes[i].id) : i \in DOMAIN s.nodes}

(* No deregister of another task can have overlapped the current call of
   p: no other task's current or previous call is a deregister. *)
NoDeregisterBeside(p) ==
    \A q \in cfg.tasks \ {p} : call[q].op # "deregister" /\ prev[q].op # "deregister"

(* C32: with no lease expired and no store request failed, when a
   register(s) of a client has returned success and no deregister
   overlapped it, the store holds a record at the path of every node of
   s, whatever register and deregister calls the client made before or
   beside it. *)
C32_RegisteredIsStored ==
    \A p \in cfg.tasks :
        (pc[p] = "done" /\ call[p].op = "register" /\ res[p] = Ok(<<>>)
             /\ nfail = 0 /\ NoLeaseExpired /\ NoDeregisterBeside(p)) =>
            PathsOf(call[p].svc) \subseteq DOMAIN store

(* No register or deregister call is in progress. *)
Quiescent == \A p \in cfg.tasks : pc[p] = "done"

(* C33: when no call is in progress and no lease has expired, every key
   with a cached lease id has a record in the store, and the lease of that
   record is the cached lease id, also after a write whose lease-grant
   failed. *)
C33_CachedLeaseIsStoredLease ==
    (Quiescent /\ NoLeaseExpired) =>
        \A s \in cfg.svcs : \A i \in DOMAIN s.nodes :
            LET key  == TrackerKey(s.name, s.nodes[i].id)
                path == node_path(s.name, s.nodes[i].id)
            IN  key \in DOMAIN data.leases =>
                    /\ path \in DOMAIN store
                    /\ store[path].lease = data.leases[key]

(* The service-level fields of a service. *)
ServiceFields(s) ==
    [name |-> s.name, version |-> s.version, metadata |-> s.metadata,
     endpoints |-> s.endpoints]

(* C34: in sequential use, with no store request failed and no lease
   expired, after register(s) has returned success the record at the path
   of every node of s decodes to the name, version, metadata and endpoints
   of s as passed to that call, also when only the version has changed
   since the node was last registered. *)
C34_StoredServiceIsCurrent ==
    \A p \in cfg.tasks :
        (pc[p] = "done" /\ call[p].op = "register" /\ res[p] = Ok(<<>>)
             /\ nfail = 0 /\ NoLeaseExpired) =>
            \A i \in DOMAIN call[p].svc.nodes :
                LET path == node_path(call[p].svc.name, call[p].svc.nodes[i].id)
                IN  /\ path \in DOMAIN store
                    /\ decode(store[path].value) # None
                    /\ ServiceFields(TheOne(decode(store[path].value)))
                           = ServiceFields(call[p].svc)

----------------------------------------------------------------------------
(* The events next() returns against the notifications delivered.           *)

(* A put or delete notification whose value (for a delete, whose previous
   value) decodes to a Service. *)
DecodableNotification(e) == ~PassedOver(e) /\ decode(EventValue(e)) # None

RECURSIVE DecodableOf(_)
DecodableOf(events) ==
    IF events = <<>> THEN <<>>
    ELSE (IF DecodableNotification(Head(events)) THEN <<Head(events)>> ELSE <<>>)
             \o DecodableOf(Tail(events))

(* The decodable notifications of a sequence of responses, in order. *)
RECURSIVE NotificationsOf(_)
NotificationsOf(rsps) ==
    IF rsps = <<>> THEN <<>>
    ELSE DecodableOf(Head(rsps).events) \o NotificationsOf(Tail(rsps))

(* The notifications the returned events were built from. *)
RECURSIVE SourcesOf(_)
SourcesOf(results) ==
    IF results = <<>> THEN <<>> ELSE <<Head(results).from>> \o SourcesOf(Tail(results))

(* The responses that next() calls have read off the stream. *)
ReadSoFar == SubSeq(wdelivered, 1, Len(wdelivered) - Len(stream))

(* C35: the events returned by successive next() calls that were built
   from decodable notifications are, in order, the decodable put and
   delete notifications of the responses read so far: none is dropped,
   also when one response carries several events. *)
C35_NoEventDropped ==
    DecodableOf(SourcesOf(wevents)) = NotificationsOf(ReadSoFar)

----------------------------------------------------------------------------
(* register_node that returns an error.                                     *)

(* The body of register_node of task p has ended with an error. *)
BodyFailed(p) ==
    /\ call[p].op = "register"
    /\ pc[p] \in {"rn_ret", "done"}
    /\ loc[p].ret = "err"

(* C36: in sequential use, a register_node that returns an error (its
   read or its put failed) leaves the tracker as it was when the body
   began: no entry it adopted from the store or computed is in the lease
   and hash maps. *)
C36_FailedBodyLeavesTracker ==
    \A p \in cfg.tasks :
        BodyFailed(p) =>
            /\ ~loc[p].committed
            /\ data = loc[p].snap

C36_Witness ==
    \E p \in cfg.tasks :
        /\ BodyFailed(p)
        /\ pc[p] = "done"
        /\ res[p] = Err("infrastructure")
        /\ loc[p].reqs = <<"get", "grant", "put">>
        /\ "put" \in loc[p].failed
        /\ loc[p].seen # <<>>
        /\ CurKey(p) \in DOMAIN loc[p].leases
        /\ data = [registers |-> EmptyMap, leases |-> EmptyMap]

(* C37: in every state of the tracker, every key that has a cached lease
   id also has a cached hash, and every cached lease id is greater than
   zero. *)
C37_LeaseImpliesHash ==
    /\ DOMAIN data.leases \subseteq DOMAIN data.registers
    /\ \A k \in DOMAIN data.leases : data.leases[k] > 0

C37_Witness ==
    \E p \in cfg.tasks :
        /\ pc[p] = "done"
        /\ call[p].op = "deregister"
        /\ res[p] = Ok(<<>>)
        /\ call[p].svc = SA1
        /\ DOMAIN data.leases = {TrackerKey(NameA, N2.id)}
        /\ DOMAIN data.registers = {TrackerKey(NameA, N2.id)}

----------------------------------------------------------------------------
(* One task and two (name, id) pairs whose concatenations are equal.        *)

NameAB == <<"a", "b">>

NB1 == Node(<<"b", "1">>, "h1", 11101, {})

SAwithB1 == Service(NameA, V1, {}, <<NB1>>)

SABwith1 == Service(NameAB, V1, {}, <<N1>>)

KeyCfg ==
    [tasks |-> {"t1"},
     svcs  |-> {SAwithB1, SABwith1},
     names |-> {NameA},
     vias  |-> {"direct"},
     wops  |-> {},
     record |-> FALSE,
     calls |-> MaxCalls - 1]

InitKeys == InitCommon /\ cfg = KeyCfg

SpecKeys == InitKeys /\ [][Next]_vars

(* The (name, id) pairs of the services of the configuration. *)
Pairs == UNION {{<<s.name, s.nodes[i].id>> : i \in DOMAIN s.nodes} : s \in cfg.svcs}

(* The lease and hash the tracker d holds for the pair x. *)
EntriesOf(d, x) ==
    [hash  |-> MapGet(d.registers, TrackerKey(x[1], x[2])),
     lease |-> MapGet(d.leases, TrackerKey(x[1], x[2]))]

(* C38: in sequential use, a step of a register or deregister of one
   (name, id) pair leaves the tracker entries of every other pair as they
   were, whatever the strings are. *)
C38_OtherPairsUntouched ==
    [][\A p \in cfg.tasks :
          call[p].op \in {"register", "deregister"} =>
              \A x \in Pairs :
                  x # <<call[p].svc.name, CurNode(p).id>> =>
                      EntriesOf(data', x) = EntriesOf(data, x)]_vars

----------------------------------------------------------------------------
(* EtcdRegistry::register_node of etcd/etcd.rs (lines 50-163), called by    *)
(* its register (lines 174-189) with a one-node service.  Its tracker is   *)
(* two mutexes, `leases` and `registers`; a guard bound to a local lives   *)
(* to the end of the function, a temporary guard to the end of its         *)
(* statement.  tokio's Mutex is not reentrant.                             *)

EtcdCfg ==
    [tasks |-> {"t1", "t2"},
     svcs  |-> {SA1, SA2},
     names |-> {},
     vias  |-> {"direct"},
     wops  |-> {},
     record |-> FALSE,
     calls |-> MaxCalls - 1]

(* Lines 174-189 and 56-61: register(s) enters register_node for its node. *)
StartEtcd(p, s) ==
    /\ pc[p] = "done"
    /\ ncalls < cfg.calls
    /\ ncalls' = ncalls + 1
    /\ call' = [call EXCEPT ![p] = Call("register", s, <<>>, "direct")]
    /\ loc' = [loc EXCEPT ![p] = LocInit]
    /\ pc' = [pc EXCEPT ![p] = "o_leases"]
    /\ res' = [res EXCEPT ![p] = NoRes]
    /\ UNCHANGED <<store, active, nextLease, data, lock, glock, nfail, cfg, cell, elocks, prev>>
    /\ UNCHANGED watchVars

(* The mutex a task waits for at each `lock().await` of the function:
   line 62 (`let lease`), lines 86-89 and 90-93 (the temporaries of the
   adoption), line 114 (`let registers`), lines 151-154 and 156-159 (the
   temporaries of the final inserts). *)
Wanted(at) ==
    CASE at = "o_leases"        -> "leases"
      [] at = "o_adopt_lease"   -> "leases"
      [] at = "o_adopt_hash"    -> "registers"
      [] at = "o_registers"     -> "registers"
      [] at = "o_insert_hash"   -> "registers"
      [] at = "o_insert_lease"  -> "leases"

LockPcs ==
    {"o_leases", "o_adopt_lease", "o_adopt_hash", "o_registers", "o_insert_hash",
     "o_insert_lease"}

(* The function returns r: its guards `lease` and `registers` are dropped. *)
EtcdReturn(p, r) ==
    /\ Return(p, r)
    /\ elocks' = [m \in {"leases", "registers"} |->
                     IF elocks[m] = p THEN NoTask ELSE elocks[m]]

(* A task gets the mutex it waits for, which must be free, and goes on to
   its next request or `lock().await`. *)
EtcdAcquire(p) ==
    /\ pc[p] \in LockPcs
    /\ elocks[Wanted(pc[p])] = NoTask
    /\ LET key == CurKey(p)
           found == TheOne(decode(loc[p].seen[1].value))
           fkey == TrackerKey(found.name, Head(found.nodes).id)
       IN  CASE pc[p] = "o_leases" ->
                  /\ elocks' = [elocks EXCEPT !.leases = p]
                  /\ pc' = [pc EXCEPT ![p] = IF MapGet(data.leases, key) = None
                                             THEN "o_get" ELSE "o_keepalive"]
                  /\ UNCHANGED <<data, loc, res, glock>>
             [] pc[p] = "o_adopt_lease" ->
                  /\ data' = [data EXCEPT !.leases = MapPut(@, fkey, loc[p].seen[1].lease)]
                  /\ pc' = [pc EXCEPT ![p] = "o_adopt_hash"]
                  /\ UNCHANGED <<elocks, loc, res, glock>>
             [] pc[p] = "o_adopt_hash" ->
                  /\ data' = [data EXCEPT !.registers =
                                 MapPut(@, fkey, HashEntry(Head(found.nodes)))]
                  /\ pc' = [pc EXCEPT ![p] = "o_registers"]
                  /\ UNCHANGED <<elocks, loc, res, glock>>
             [] pc[p] = "o_registers" ->
                  IF SkipWrite(MapGet(data.registers, key), HashNode(CurNode(p)),
                               loc[p].lease_not_found)
                  THEN /\ EtcdReturn(p, Ok(<<>>))
                       /\ UNCHANGED <<data, loc>>
                  ELSE /\ elocks' = [elocks EXCEPT !.registers = p]
                       /\ pc' = [pc EXCEPT ![p] = "o_grant"]
                       /\ UNCHANGED <<data, loc, res, glock>>
             [] pc[p] = "o_insert_hash" ->
                  /\ data' = [data EXCEPT !.registers = MapPut(@, key, HashEntry(CurNode(p)))]
                  /\ IF loc[p].lease_id # 0
                     THEN /\ pc' = [pc EXCEPT ![p] = "o_insert_lease"]
                          /\ UNCHANGED <<elocks, res, glock>>
                     ELSE EtcdReturn(p, Ok(<<>>))
                  /\ UNCHANGED loc
             [] pc[p] = "o_insert_lease" ->
                  /\ data' = [data EXCEPT !.leases = MapPut(@, key, loc[p].lease_id)]
                  /\ EtcdReturn(p, Ok(<<>>))
                  /\ UNCHANGED loc
    /\ UNCHANGED <<store, active, nextLease, lock, call, ncalls, nfail, cfg, cell, prev>>
    /\ UNCHANGED watchVars

(* A record the adoption loop of lines 70-94 enters in the tracker. *)
EtcdAdoptable(kvs) ==
    /\ kvs # <<>>
    /\ kvs[1].lease > 0
    /\ decode(kvs[1].value) # None
    /\ TheOne(decode(kvs[1].value)).nodes # <<>>

(* A store request of the function returns: the read of line 67, the
   keep-alive of line 104, the lease-grant of line 136, the put of lines
   147-149.  A failed read, keep-alive or put ends the function (`?`). *)
EtcdRequest(p) ==
    /\ pc[p] \in {"o_get", "o_keepalive", "o_grant", "o_put"}
    /\ LET key == CurKey(p)
           path == etcd_node_path(call[p].svc.name, CurNode(p).id)
       IN  CASE pc[p] = "o_get" ->
                  \/ /\ MayFail
                     /\ Failed
                     /\ EtcdReturn(p, Err("infrastructure"))
                     /\ UNCHANGED <<store, active, nextLease, loc>>
                  \/ /\ UNCHANGED <<nfail, store, active, nextLease, res, glock, elocks>>
                     /\ loc' = [loc EXCEPT ![p].seen = StoreGet(path)]
                     /\ pc' = [pc EXCEPT ![p] = IF EtcdAdoptable(StoreGet(path))
                                                THEN "o_adopt_lease" ELSE "o_registers"]
             [] pc[p] = "o_keepalive" ->
                  \/ /\ data.leases[key] \in active
                     /\ loc' = [loc EXCEPT ![p].lease_not_found = TRUE]
                     /\ pc' = [pc EXCEPT ![p] = "o_registers"]
                     /\ UNCHANGED <<nfail, store, active, nextLease, res, glock, elocks>>
                  \/ /\ data.leases[key] \notin active
                     /\ EtcdReturn(p, Err("infrastructure"))
                     /\ UNCHANGED <<nfail, store, active, nextLease, loc>>
                  \/ /\ data.leases[key] \in active
                     /\ MayFail
                     /\ Failed
                     /\ EtcdReturn(p, Err("infrastructure"))
                     /\ UNCHANGED <<store, active, nextLease, loc>>
             [] pc[p] = "o_grant" ->
                  \/ /\ nextLease <= MaxLease
                     /\ active' = active \cup {nextLease}
                     /\ nextLease' = nextLease + 1
                     /\ loc' = [loc EXCEPT ![p].lease_id = nextLease,
                                           ![p].ttl = Ttl(Some(Popt(OptOf(call[p]))))]
                     /\ pc' = [pc EXCEPT ![p] = "o_put"]
                     /\ UNCHANGED <<nfail, store, res, glock, elocks>>
                  \/ /\ MayFail
                     /\ Failed
                     /\ loc' = [loc EXCEPT ![p].lease_id = 0]
                     /\ pc' = [pc EXCEPT ![p] = "o_put"]
                     /\ UNCHANGED <<store, active, nextLease, res, glock, elocks>>
             [] pc[p] = "o_put" ->
                  \/ /\ loc[p].lease_id = 0 \/ loc[p].lease_id \in active
                     /\ store' = MapPut(store, EtcdKeys(call[p].svc.name, CurNode(p).id).put,
                                        [value |-> encode(SingleNode(call[p].svc, CurNode(p))),
                                         lease |-> loc[p].lease_id])
                     /\ pc' = [pc EXCEPT ![p] = "o_insert_hash"]
                     /\ UNCHANGED <<nfail, active, nextLease, loc, res, glock, elocks>>
                  \/ /\ loc[p].lease_id # 0 /\ loc[p].lease_id \notin active
                     /\ EtcdReturn(p, Err("infrastructure"))
                     /\ UNCHANGED <<nfail, store, active, nextLease, loc>>
                  \/ /\ MayFail
                     /\ Failed
                     /\ EtcdReturn(p, Err("infrastructure"))
                     /\ UNCHANGED <<store, active, nextLease, loc>>
    /\ UNCHANGED <<data, lock, call, ncalls, cfg, cell, prev>>
    /\ UNCHANGED watchVars

NextEtcd ==
    \/ \E p \in cfg.tasks : \E s \in cfg.svcs : StartEtcd(p, s)
    \/ \E p \in cfg.tasks : EtcdAcquire(p)
    \/ \E p \in cfg.tasks : EtcdRequest(p)
    \/ \E l \in active : Expire(l)

InitEtcd == InitCommon /\ cfg = EtcdCfg

SpecEtcd == InitEtcd /\ [][NextEtcd]_vars

(* C39: no register_node call, of etcd/lib.rs or of etcd/etcd.rs, waits
   for a tracker mutex that the same call is holding. *)
C39_NoSelfDeadlock ==
    \A p \in cfg.tasks :
        /\ pc[p] \in LockPcs => elocks[Wanted(pc[p])] # p
        /\ pc[p] \in {"rn_lock", "rn_clock"} => lock # p

----------------------------------------------------------------------------
(* The status codes of the errors crate (errors/src/lib.rs).                *)

(* Lines 10-60: the variants of `enum Code`. *)
Codes ==
    {"Unknown", "Continue", "Ok", "BadRequest", "Unauthorized", "Forbidden",
     "NotFound", "MethodNotAllowed", "RequestTimeout", "Conflict",
     "PreconditionFailed", "TooManyRequests", "InternalServerError",
     "NotImplementedError", "BadGateway", "ServiceUnavailable", "GatewayTimeout"}

(* Lines 127-132: `impl From<Code> for i32` is `code as i32`, the
   discriminant the enum gives the variant (lines 11-59). *)
I32FromCode(code) ==
    CASE code = "Unknown"             -> 0
      [] code = "Continue"            -> 100
      [] code = "Ok"                  -> 200
      [] code = "BadRequest"          -> 400
      [] code = "Unauthorized"        -> 401
      [] code = "Forbidden"           -> 403
      [] code = "NotFound"            -> 404
      [] code = "MethodNotAllowed"    -> 405
      [] code = "RequestTimeout"      -> 408
      [] code = "Conflict"            -> 409
      [] code = "PreconditionFailed"  -> 412
      [] code = "TooManyRequests"     -> 429
      [] code = "InternalServerError" -> 500
      [] code = "NotImplementedError" -> 501
      [] code = "BadGateway"          -> 502
      [] code = "ServiceUnavailable"  -> 503
      [] code = "GatewayTimeout"      -> 504

(* Lines 102-125: `impl From<i32> for Code`, the match on the integer. *)
CodeFromI32(i) ==
    CASE i = 200 -> "Ok"
      [] i = 201 -> "Continue"
      [] i = 400 -> "BadRequest"
      [] i = 401 -> "Unauthorized"
      [] i = 403 -> "Forbidden"
      [] i = 404 -> "NotFound"
      [] i = 405 -> "MethodNotAllowed"
      [] i = 408 -> "RequestTimeout"
      [] i = 409 -> "Conflict"
      [] i = 412 -> "PreconditionFailed"
      [] i = 429 -> "TooManyRequests"
      [] i = 500 -> "InternalServerError"
      [] i = 501 -> "NotImplementedError"
      [] i = 502 -> "BadGateway"
      [] i = 503 -> "ServiceUnavailable"
      [] i = 504 -> "GatewayTimeout"
      [] OTHER   -> "Unknown"

(* Lines 66-68: Code::from_i32 is Code::from. *)
from_i32(i) == CodeFromI32(i)

(* The integers handed to from_i32: the value of every variant, and the
   integers next to it on either side. *)
CodeInts ==
    UNION {{I32FromCode(c) - 1, I32FromCode(c), I32FromCode(c) + 1} : c \in Codes}

CodeCfg ==
    [tasks |-> {"t1"}, svcs |-> {}, names |-> {}, vias |-> {"direct"},
     wops |-> {}, record |-> FALSE, calls |-> MaxCalls - 1]

(* A task calls Code::from_i32(i) or i32::from(code). *)
StartCode(p, c) ==
    /\ pc[p] = "done"
    /\ ncalls < cfg.calls
    /\ ncalls' = ncalls + 1
    /\ call' = [call EXCEPT ![p] = c]
    /\ loc' = [loc EXCEPT ![p] = LocInit]
    /\ pc' = [pc EXCEPT ![p] = c.op]
    /\ res' = [res EXCEPT ![p] = NoRes]
    /\ UNCHANGED <<store, active, nextLease, data, lock, glock, nfail, cfg, elocks, cell, prev>>
    /\ UNCHANGED watchVars

FromI32(p) ==
    /\ pc[p] = "from_i32"
    /\ Return(p, Ok(<<from_i32(call[p].arg)>>))
    /\ UNCHANGED <<store, active, nextLease, data, lock, call, loc, ncalls, nfail, cfg, elocks, cell, prev>>
    /\ UNCHANGED watchVars

I32From(p) ==
    /\ pc[p] = "i32_from"
    /\ Return(p, Ok(<<I32FromCode(call[p].arg)>>))
    /\ UNCHANGED <<store, active, nextLease, data, lock, call, loc, ncalls, nfail, cfg, elocks, cell, prev>>
    /\ UNCHANGED watchVars

NextCode ==
    \/ \E p \in cfg.tasks : \E i \in CodeInts : StartCode(p, PureCall("from_i32", i))
    \/ \E p \in cfg.tasks : \E c \in Codes : StartCode(p, PureCall("i32_from", c))
    \/ \E p \in cfg.tasks : FromI32(p)
    \/ \E p \in cfg.tasks : I32From(p)

InitCode == InitCommon /\ cfg = CodeCfg

SpecCode == InitCode /\ [][NextCode]_vars

(* C40: Code::from_i32 returns the Code the integer represents: the value
   of a variant c, as i32::from(c) gives it, is mapped back to c, and an
   integer that is the value of no variant is mapped to Code::Unknown. *)
C40_FromI32IsInverse ==
    \A p \in cfg.tasks :
        (pc[p] = "done" /\ call[p].op = "from_i32" /\ res[p].kind = "ok") =>
            /\ \A c \in Codes : I32FromCode(c) = call[p].arg => res[p].val[1] = c
            /\ (\A c \in Codes : I32FromCode(c) # call[p].arg) => res[p].val[1] = "Unknown"
============================================================================
